---- MODULE Spec2Model ----
(***************************************************************************)
(* Model of mcp-jvm-debugger: the in-process probe runtime (hit table,     *)
(* runtime configuration, control-plane HTTP handlers) and the planner's   *)
(* probe tools (probe_status, probe_reset, probe_wait_hit).                *)
(*                                                                         *)
(* Strings are sequences of one-character strings so that trim, isBlank,   *)
(* toLowerCase, concatenation and the line-key regex are computed as the   *)
(* code computes them.                                                     *)
(*                                                                         *)
(* The specifications share the variables:                                 *)
(*   SpecHits    application threads calling hit() against the             *)
(*               control-plane thread serving reset and status;            *)
(*   SpecCfg     configure() on the control-plane thread against bytecode  *)
(*               reads of the configuration on an application thread;      *)
(*   SpecWait    probe_reset and probe_wait_hit talking to the runtime     *)
(*               over HTTP while the application hits the line             *)
(*               (SpecWaitSeq, SpecWaitFresh and SpecWaitApplied add a     *)
(*               recorded history, SpecWaitLive a clock that runs on);     *)
(*   SpecStrict  the three probe tools called with every kind of key;      *)
(*   SpecRecipe, SpecCandidate, SpecTool, SpecInfer  the planner's recipe   *)
(*               generation and target inference over their inputs;        *)
(*   SpecHttp, SpecActuate  the control plane answering every request;     *)
(*   SpecAgent   the agent's start-up configuration and class filter;      *)
(*   SpecJump    instrumented jumps run next to configure();               *)
(*   SpecLine    an application thread running what the transformer        *)
(*               installed on a loaded class;                              *)
(*   SpecTransport  the probe tools against a probe that cannot be reached;*)
(*   SpecIdem    reset and configure called repeatedly;                    *)
(*   SpecArm     probe_actuate on an observing and on an armed runtime;    *)
(*   SpecSearch, SpecRoots  the caller search of the request-candidate     *)
(*               inference and the directories it searches.                *)
(***************************************************************************)
EXTENDS Integers, Sequences, FiniteSets, TLC

VARIABLES
  COUNTS,                   \* ProbeRuntime.COUNTS: key -> count, Absent when no entry
  LAST_HIT_EPOCH_MS,        \* ProbeRuntime.LAST_HIT_EPOCH_MS: key -> epoch, Absent when no entry
  clock,                    \* the wall clock, in ticks
  hitter,                   \* application threads inside ProbeRuntime.hit
  srv,                      \* the control-plane dispatcher thread (HttpServer, default executor)
  net,                      \* per caller: HTTP request or response in flight
  MODE,                     \* ProbeRuntime.MODE
  ACTUATOR_ID,              \* ProbeRuntime.ACTUATOR_ID
  ACTUATE_TARGET_KEY,       \* ProbeRuntime.ACTUATE_TARGET_KEY
  ACTUATE_RETURN_BOOLEAN,   \* ProbeRuntime.ACTUATE_RETURN_BOOLEAN
  reader,                   \* application thread inside a bytecode-issued configuration read
  LAST_RESET_EPOCH_BY_KEY,  \* planner: key -> epoch of last successful reset, Absent when none
  wait,                     \* planner: the probe_wait_hit invocation
  rst,                      \* planner: the probe_reset invocation
  stat,                     \* planner: the probe_status invocation
  recipe,                   \* planner: the recipe_generate invocation
  infer,                    \* planner: the target_infer invocation
  act,                      \* planner: the probe_actuate invocation
  search,                   \* planner: the caller search of findControllerRequestCandidate
  agent,                    \* the agent's start-up and class-load decisions
  hist                      \* history of the run, read only by the properties

hitVars == <<COUNTS, LAST_HIT_EPOCH_MS, clock, hitter>>
cfgVars == <<MODE, ACTUATOR_ID, ACTUATE_TARGET_KEY, ACTUATE_RETURN_BOOLEAN, reader>>
planVars == <<LAST_RESET_EPOCH_BY_KEY, wait, rst, stat, recipe, infer, act, search>>
vars == <<COUNTS, LAST_HIT_EPOCH_MS, clock, hitter, srv, net,
          MODE, ACTUATOR_ID, ACTUATE_TARGET_KEY, ACTUATE_RETURN_BOOLEAN, reader,
          LAST_RESET_EPOCH_BY_KEY, wait, rst, stat, recipe, infer, act, search, agent, hist>>

----------------------------------------------------------------------------
(* Bounds *)

MaxTicks == 3        \* the clock stops advancing after this many ticks
MsPerTick == 1000    \* milliseconds per clock tick
MaxCount == 2        \* hit() is not started once a key's count reached this
MaxCalls == 1        \* a planner tool is not called more often than this
MaxConfigures == 1   \* actuate requests served after agent start

----------------------------------------------------------------------------
(* Strings *)

Absent == -1
Null == <<"\\0">>    \* a Java null / JavaScript undefined string

Digit == {"0", "1", "2", "3", "4", "5", "6", "7", "8", "9"}
DigitSeq == <<"0", "1", "2", "3", "4", "5", "6", "7", "8", "9">>
UpperSeq == <<"A", "B", "C", "D", "E", "F", "G", "H", "I", "J", "K", "L", "M",
              "N", "O", "P", "Q", "R", "S", "T", "U", "V", "W", "X", "Y", "Z">>
LowerSeq == <<"a", "b", "c", "d", "e", "f", "g", "h", "i", "j", "k", "l", "m",
              "n", "o", "p", "q", "r", "s", "t", "u", "v", "w", "x", "y", "z">>

IsSpace(ch) == ch = " "

isEmpty(s) == Len(s) = 0

isBlank(s) == \A i \in 1..Len(s) : IsSpace(s[i])

trim(s) ==
  IF isBlank(s) THEN <<>>
  ELSE LET first == CHOOSE i \in 1..Len(s) :
                      /\ ~IsSpace(s[i])
                      /\ \A j \in 1..(i - 1) : IsSpace(s[j])
           last == CHOOSE i \in 1..Len(s) :
                      /\ ~IsSpace(s[i])
                      /\ \A j \in (i + 1)..Len(s) : IsSpace(s[j])
       IN SubSeq(s, first, last)

toLowerCaseChar(ch) ==
  IF \E i \in 1..Len(UpperSeq) : UpperSeq[i] = ch
  THEN LowerSeq[CHOOSE i \in 1..Len(UpperSeq) : UpperSeq[i] = ch]
  ELSE ch

toLowerCase(s) == [i \in 1..Len(s) |-> toLowerCaseChar(s[i])]

RECURSIVE NatToStr(_)
NatToStr(n) ==
  IF n < 10 THEN <<DigitSeq[n + 1]>>
  ELSE NatToStr(n \div 10) \o <<DigitSeq[(n % 10) + 1]>>

IntToStr(n) == IF n < 0 THEN <<"-">> \o NatToStr(0 - n) ELSE NatToStr(n)

Observe == <<"o", "b", "s", "e", "r", "v", "e">>
Actuate == <<"a", "c", "t", "u", "a", "t", "e">>

MethodKey(c, m) == c \o <<"#">> \o m

LineKey(c, m, line) == c \o <<"#">> \o m \o <<":">> \o IntToStr(line)

----------------------------------------------------------------------------
(* The names the instrumented application uses *)

ClassC == <<"C">>
ClassD == <<"D">>
MethodM == <<"m">>
MethodN == <<"n">>
KeyLine == <<"C", "#", "m", ":", "7">>       \* C#m:7
KeyMethod == <<"C", "#", "m">>               \* C#m
KeyNoClass == <<"#", "m", ":", "1">>         \* #m:1
KeyNoLine == <<"C", "#", "m", ":">>          \* C#m:

RtKeys == {KeyLine, KeyNoClass}     \* keys the hit table is exercised with
HitLines == {0, 7}                  \* line numbers passed to hitLineByClassMethod
Hitters == {"h1", "h2"}             \* application threads

----------------------------------------------------------------------------
(* Hit table: ProbeRuntime *)

Now == clock * MsPerTick

getCount(key) == IF COUNTS[key] = Absent THEN 0 ELSE COUNTS[key]

getLastHitEpochMs(key) ==
  IF LAST_HIT_EPOCH_MS[key] = Absent THEN 0 ELSE LAST_HIT_EPOCH_MS[key]

HitterIdle == [pc |-> "idle", key |-> <<>>, t |-> 0]

NoTag == [afterReset |-> FALSE, stored |-> FALSE, call |-> 0, att |-> 0, stage |-> "pre"]

\* history: a hit() call starts; it remembers what was going on when it started
HistHitBegin(h, key) ==
  [hist EXCEPT
     !.zeroed[key] = FALSE,
     !.hits[key] = @ + 1,
     !.lastReset = IF @ = <<key>> THEN <<>> ELSE @,
     !.tag[h] = [afterReset |-> (/\ hist.track \in {"sequence", "applied"}
                                 /\ key = KeyLine
                                 /\ hist.phase >= 1),
                 stored |-> (/\ hist.track = "applied"
                             /\ key = KeyLine
                             /\ rst.pc = "done" /\ rst.recorded),
                 call |-> IF hist.track # "fresh" THEN 0 ELSE wait.calls,
                 att |-> IF hist.track # "fresh" \/ wait.pc \in {"idle", "done"} \/ wait.key # key
                         THEN 0 ELSE wait.attempt,
                 stage |-> hist.stage]]

\* history: a hit() call has written its timestamp
HistHitDone(h, key) ==
  LET tg == hist.tag[h]
      inWait == hist.track = "fresh" /\ wait.pc \notin {"idle", "done"} /\ wait.key = key
  IN [hist EXCEPT !.zeroed[key] = FALSE,
                  !.tag[h] = NoTag,
                  !.phase = IF tg.afterReset /\ hist.phase = 1 THEN 2 ELSE @,
                  !.hitT = IF tg.afterReset /\ hist.phase = 1 /\ hist.track = "applied"
                           THEN hitter[h].t ELSE @,
                  !.hitStored = IF tg.afterReset /\ hist.phase = 1 /\ hist.track = "applied"
                                THEN tg.stored ELSE @,
                  !.freshDone = @ \/ (inWait /\ tg.call = wait.calls /\ tg.att >= 1),
                  !.goodDone = @ \/ (/\ inWait
                                     /\ tg.call = wait.calls
                                     /\ tg.att = wait.attempt
                                     /\ \/ tg.stage = "post"
                                        \/ tg.stage = "pre" /\ hist.stage = "pre")]

incrementAndGet_GetThenPut(key) ==
  IF \E o \in Hitters : hitter[o].pc = "inc" /\ hitter[o].key = key
  THEN getCount(key)
  ELSE getCount(key) + 1

\* AtomicLong.incrementAndGet on the entry computeIfAbsent returns: one atomic step
incrementAndGet(key) == getCount(key) + 1

\* ProbeRuntime.hit(key), first statement: COUNTS.computeIfAbsent(key).incrementAndGet()
hitCall(h, key) ==
  /\ hitter[h].pc = "idle"
  /\ ~isEmpty(key)
  /\ key \in DOMAIN COUNTS
  /\ getCount(key) < MaxCount
  /\ COUNTS' = [COUNTS EXCEPT ![key] = incrementAndGet(key)]
  /\ hitter' = [hitter EXCEPT ![h] = [pc |-> "inc", key |-> key, t |-> 0]]
  /\ hist' = HistHitBegin(h, key)
  /\ UNCHANGED <<LAST_HIT_EPOCH_MS, clock, srv, net, cfgVars, planVars>>

hitIncrement(h, key) == hitCall(h, key) /\ UNCHANGED agent

\* ProbeRuntime.hitLineByClassMethod: no call to hit() when lineNumber <= 0
hitLineByClassMethod(h, c, m, line) ==
  /\ line > 0
  /\ hitIncrement(h, LineKey(c, m, line))

\* second statement of hit(): the argument System.currentTimeMillis() is evaluated
hitReadClock(h) ==
  /\ hitter[h].pc = "inc"
  /\ hitter' = [hitter EXCEPT ![h].pc = "timed", ![h].t = Now]
  /\ hist' = [hist EXCEPT !.zeroed[hitter[h].key] = FALSE]
  /\ UNCHANGED <<COUNTS, LAST_HIT_EPOCH_MS, clock, srv, net, cfgVars, planVars, agent>>

\* second statement of hit(): LAST_HIT_EPOCH_MS.computeIfAbsent(key).set(t)
hitSetLast(h) ==
  /\ hitter[h].pc = "timed"
  /\ LAST_HIT_EPOCH_MS' = [LAST_HIT_EPOCH_MS EXCEPT ![hitter[h].key] = hitter[h].t]
  /\ hitter' = [hitter EXCEPT ![h] = HitterIdle]
  /\ hist' = HistHitDone(h, hitter[h].key)
  /\ UNCHANGED <<COUNTS, clock, srv, net, cfgVars, planVars, agent>>

\* the wall clock advances (System.currentTimeMillis and Date.now read the same clock)
Tick ==
  /\ clock < MaxTicks
  /\ clock' = clock + 1
  /\ UNCHANGED <<COUNTS, LAST_HIT_EPOCH_MS, hitter, srv, net, cfgVars, planVars, agent, hist>>

\* the wall clock keeps advancing, past MaxTicks, for as long as an attempt of
\* probe_wait_hit has not used up its timeoutMs
TickWhileWaiting ==
  /\ clock >= MaxTicks
  /\ wait.pc \notin {"idle", "done"}
  /\ Now - wait.waitStart < wait.timeoutMs
  /\ clock' = clock + 1
  /\ UNCHANGED <<COUNTS, LAST_HIT_EPOCH_MS, hitter, srv, net, cfgVars, planVars, agent, hist>>

----------------------------------------------------------------------------
(* Control-plane HTTP server: one dispatcher thread serves one request at a time *)

Callers == {"ext", "wait", "rst", "stat", "act"}

ObserveCfg == [mode |-> Observe, actuatorId |-> <<>>, targetKey |-> <<>>,
               returnBoolean |-> FALSE]

\* a JSON body of POST /__probe/actuate: Null and <<>> stand for an omitted field
NoBody == [mode |-> Null, actuatorId |-> Null, targetKey |-> Null, returnBoolean |-> <<>>]

HttpGet == <<"G", "E", "T">>
HttpPost == <<"P", "O", "S", "T">>

\* a request carries method, ?key=, "key" of a JSON body and the actuate body fields;
\* a response carries the status code and the fields of the JSON answer
NetIdle == [st |-> "idle", kind |-> "none", method |-> <<>>, key |-> <<>>,
            bodyKey |-> Null, body |-> NoBody,
            code |-> 0, error |-> "", hitCount |-> 0, lastHitEpochMs |-> 0,
            cfg |-> ObserveCfg]

\* the request the planner's probe tools and well-behaved clients send
Request(kind, key) ==
  [NetIdle EXCEPT !.st = "req", !.kind = kind, !.key = key,
                  !.method = IF kind = "status" THEN HttpGet ELSE HttpPost]

\* every method is let through
methodAllowed_Any(rq) == TRUE

\* "GET".equalsIgnoreCase(method) for status, "POST".equalsIgnoreCase(method) otherwise
methodAllowed(rq) ==
  toLowerCase(rq.method) = toLowerCase(IF rq.kind = "status" THEN HttpGet ELSE HttpPost)

\* key == null || key.isEmpty()
missingKey(key) == key = Null \/ isEmpty(key)

\* the key a handler works with: ?key= and, for reset only, "key" of the JSON body
\* when the query has none
requestKey(rq) ==
  IF rq.kind = "reset" /\ missingKey(rq.key) THEN rq.bodyKey ELSE rq.key

SrvIdle == [pc |-> "idle", from |-> "none", key |-> <<>>, cnt |-> 0,
            configures |-> 0, old |-> ObserveCfg, cfg |-> ObserveCfg]

\* history: the status handler reads the count for a probe_wait_hit request
HistStatusRead(c) ==
  IF c = "wait" /\ hist.track = "fresh"
  THEN [hist EXCEPT !.seen = @ \/ hist.freshDone,
                    !.must = @ \/ hist.goodDone,
                    !.stage = "post"]
  ELSE hist

\* StatusHandler.handle up to `long hitCount = ProbeRuntime.getCount(key)`
StatusHandlerReadCount(c) ==
  /\ srv.pc = "idle"
  /\ net[c].st = "req"
  /\ net[c].kind = "status"
  /\ methodAllowed(net[c])
  /\ ~missingKey(requestKey(net[c]))
  /\ srv' = [SrvIdle EXCEPT !.pc = "status", !.from = c, !.key = requestKey(net[c]),
                            !.cnt = getCount(requestKey(net[c])),
                            !.configures = srv.configures]
  /\ hist' = HistStatusRead(c)
  /\ UNCHANGED <<net, hitVars, cfgVars, planVars, agent>>

\* StatusHandler.handle from `ProbeRuntime.getLastHitEpochMs(key)` to writeJson(200)
StatusHandlerRespond ==
  /\ srv.pc = "status"
  /\ net' = [net EXCEPT ![srv.from] =
               [NetIdle EXCEPT !.st = "resp", !.kind = "status", !.key = srv.key,
                               !.code = 200, !.hitCount = srv.cnt,
                               !.lastHitEpochMs = getLastHitEpochMs(srv.key)]]
  /\ srv' = [SrvIdle EXCEPT !.configures = srv.configures]
  /\ UNCHANGED <<hitVars, cfgVars, planVars, agent, hist>>

\* ResetHandler.handle up to the first statement of ProbeRuntime.reset: COUNTS[key].set(0)
ResetHandlerCounts(c) ==
  /\ srv.pc = "idle"
  /\ net[c].st = "req"
  /\ net[c].kind = "reset"
  /\ methodAllowed(net[c])
  /\ ~missingKey(requestKey(net[c]))
  /\ COUNTS' = [COUNTS EXCEPT ![requestKey(net[c])] = 0]
  /\ srv' = [SrvIdle EXCEPT !.pc = "reset", !.from = c, !.key = requestKey(net[c]),
                            !.configures = srv.configures]
  /\ hist' = [hist EXCEPT !.phase = IF requestKey(net[c]) = KeyLine THEN 0 ELSE @,
                          !.hits[requestKey(net[c])] = 0,
                          !.tag = [h \in Hitters |-> [@[h] EXCEPT !.afterReset = FALSE]],
                          !.firstEver = IF requestKey(net[c]) = wait.key THEN FALSE ELSE @]
  /\ UNCHANGED <<net, LAST_HIT_EPOCH_MS, clock, hitter, cfgVars, planVars, agent>>

\* second statement of ProbeRuntime.reset: LAST_HIT_EPOCH_MS[key].set(0), then writeJson(200)
ResetHandlerRespond ==
  /\ srv.pc = "reset"
  /\ LAST_HIT_EPOCH_MS' = [LAST_HIT_EPOCH_MS EXCEPT ![srv.key] = 0]
  /\ net' = [net EXCEPT ![srv.from] =
               [NetIdle EXCEPT !.st = "resp", !.kind = "reset", !.key = srv.key, !.code = 200]]
  /\ srv' = [SrvIdle EXCEPT !.configures = srv.configures]
  /\ hist' = [hist EXCEPT !.zeroed[srv.key] = (hist.track = "zeroed"),
                          !.phase = IF /\ hist.track = "applied"
                                       /\ srv.from = "rst" /\ srv.key = KeyLine
                                    THEN 1 ELSE @]
  /\ UNCHANGED <<COUNTS, clock, hitter, cfgVars, planVars, agent>>

\* any HTTP client of the control plane (curl, another agent)
ExtSend(kind, key) ==
  /\ net["ext"].st = "idle"
  /\ net' = [net EXCEPT !["ext"] = Request(kind, key)]
  /\ UNCHANGED <<srv, hitVars, cfgVars, planVars, agent, hist>>

ExtReceive ==
  /\ net["ext"].st = "resp"
  /\ net' = [net EXCEPT !["ext"] = NetIdle]
  /\ UNCHANGED <<srv, hitVars, cfgVars, planVars, agent, hist>>

\* any HTTP client sends any request: any method, with or without ?key= and body
HttpSend(kind, method, key, bodyKey, body) ==
  /\ net["ext"].st = "idle"
  /\ net' = [net EXCEPT !["ext"] =
               [NetIdle EXCEPT !.st = "req", !.kind = kind, !.method = method, !.key = key,
                               !.bodyKey = bodyKey, !.body = body]]
  /\ UNCHANGED <<srv, hitVars, cfgVars, planVars, agent, hist>>

ErrorResponse(rq, code, error) ==
  [NetIdle EXCEPT !.st = "resp", !.kind = rq.kind, !.code = code, !.error = error]

\* StatusHandler.handle, ResetHandler.handle and ActuateHandler.handle returning early
\* on a method that is not allowed
MethodNotAllowed(c) ==
  /\ srv.pc = "idle"
  /\ net[c].st = "req"
  /\ net[c].kind \in {"status", "reset", "actuate"}
  /\ ~methodAllowed(net[c])
  /\ net' = [net EXCEPT ![c] = ErrorResponse(net[c], 405, "method_not_allowed")]
  /\ UNCHANGED <<srv, hitVars, cfgVars, planVars, agent, hist>>

\* StatusHandler.handle and ResetHandler.handle returning early on a missing key
MissingKey(c) ==
  /\ srv.pc = "idle"
  /\ net[c].st = "req"
  /\ net[c].kind \in {"status", "reset"}
  /\ methodAllowed(net[c])
  /\ missingKey(requestKey(net[c]))
  /\ net' = [net EXCEPT ![c] = ErrorResponse(net[c], 400, "missing_key")]
  /\ UNCHANGED <<srv, hitVars, cfgVars, planVars, agent, hist>>

\* a request or its response is lost, or the caller's timeout aborts the fetch
TransportFailure(c) ==
  /\ net[c].st \in {"req", "resp"}
  /\ srv.from # c
  /\ net' = [net EXCEPT ![c] = [NetIdle EXCEPT !.st = "error"]]
  /\ UNCHANGED <<srv, hitVars, cfgVars, planVars, agent, hist>>

----------------------------------------------------------------------------
(* Planner: probe tools (tools/probe.ts), one invocation of each tool at a time *)

DEFAULT_PROBE_TIMEOUT_MS == 15000
HARD_MAX_PROBE_TIMEOUT_MS == 60000
DEFAULT_PROBE_WAIT_MAX_RETRIES == 1
HARD_MAX_PROBE_WAIT_MAX_RETRIES == 10

NoHint == 0                          \* lineHint not supplied
NoArg == -1                          \* optional numeric argument not supplied

ArgKeys == {KeyLine, KeyMethod, KeyNoClass, KeyNoLine}
ArgLineHints == {NoHint, 7}
ArgTimeouts == {500, 2000}
ArgRetries == {NoArg, 2}

clampInt(n, min, max) == IF n < min THEN min ELSE IF n > max THEN max ELSE n

\* /#[^:]+:\d+$/.test(key)
isLineKey(key) ==
  \E i \in 1..Len(key) :
    /\ key[i] = "#"
    /\ \E j \in (i + 2)..(Len(key) - 1) :
         /\ key[j] = ":"
         /\ \A k \in (i + 1)..(j - 1) : key[k] # ":"
         /\ \A k \in (j + 1)..Len(key) : key[k] \in Digit

resolveProbeKey(key, lineHint) ==
  IF lineHint = NoHint THEN key
  ELSE IF isLineKey(key) THEN key
  ELSE key \o <<":">> \o IntToStr(lineHint)

\* the URL a probe tool requests: the configured path and, for status, ?key=
statusUrl(key) == <<"/__probe/status", key>>
resetUrl == <<"/__probe/reset", <<>>>>
actuateUrl == <<"/__probe/actuate", <<>>>>

NoError == <<>>

probeUnreachableMessage_NoUrl(url) == <<"Probe endpoint unreachable: ", "", <<>>>>

\* probeUnreachableMessage: the remediation text, which names the URL
probeUnreachableMessage(url) == <<"Probe endpoint unreachable: ">> \o url

NoStale == [set |-> FALSE, hitCount |-> 0, hitDelta |-> 0, lastHitEpochMs |-> 0]

NoResult == [kind |-> "none", source |-> "none", attempt |-> 0,
             hitCount |-> 0, hitDelta |-> 0, lastHitEpochMs |-> 0,
             waitStart |-> 0, inlineStart |-> 0, baselineCount |-> 0,
             polled |-> FALSE, stale |-> NoStale, error |-> NoError]

WaitIdle == [pc |-> "idle", calls |-> 0, argKey |-> <<>>, lineHint |-> NoHint, key |-> <<>>,
             timeoutMs |-> 0, maxRetries |-> 0, attempt |-> 0,
             waitStart |-> 0, inlineStart |-> 0,
             baselineCount |-> 0, baselineLast |-> 0,
             sent |-> FALSE, polled |-> FALSE, stale |-> NoStale, result |-> NoResult]

\* probeWaitHit returns (or throws): only the arguments and the result stay
WaitDone(w, result) ==
  [WaitIdle EXCEPT !.pc = "done", !.calls = w.calls, !.argKey = w.argKey, !.lineHint = w.lineHint,
                   !.key = w.key, !.sent = w.sent, !.result = result]

WaitHit(w, source, r) ==
  [NoResult EXCEPT !.kind = "hit", !.source = source, !.attempt = w.attempt,
                   !.hitCount = r.hitCount, !.hitDelta = r.hitCount - w.baselineCount,
                   !.lastHitEpochMs = r.lastHitEpochMs,
                   !.waitStart = w.waitStart, !.inlineStart = w.inlineStart,
                   !.baselineCount = w.baselineCount,
                   !.polled = w.polled]

\* top of the attempt loop: waitStartEpochMs, inlineStartEpochMs, then the baseline probeStatus
\* the reset epoch is looked up by the first attempt only
BeginAttempt_FirstLookupOnly(w, a) ==
  [w EXCEPT !.pc = "baseline", !.attempt = a, !.sent = TRUE,
            !.waitStart = Now,
            !.inlineStart = IF a > 1 THEN IF w.inlineStart = w.waitStart THEN Now ELSE @
                            ELSE IF LAST_RESET_EPOCH_BY_KEY[w.key] # Absent
                            THEN LAST_RESET_EPOCH_BY_KEY[w.key] ELSE Now,
            !.baselineCount = 0, !.baselineLast = 0]

\* the head of the attempt loop: Date.now() and the lookup of the key's reset epoch
BeginAttempt(w, a) ==
  [w EXCEPT !.pc = "baseline", !.attempt = a, !.sent = TRUE,
            !.waitStart = Now,
            !.inlineStart = IF LAST_RESET_EPOCH_BY_KEY[w.key] # Absent
                            THEN LAST_RESET_EPOCH_BY_KEY[w.key] ELSE Now,
            !.baselineCount = 0, !.baselineLast = 0]

ContinueWait_LateTimeout(w) ==
  IF Now - w.waitStart <= w.timeoutMs
  THEN [w EXCEPT !.pc = "poll", !.polled = TRUE]
  ELSE IF w.attempt + 1 <= w.maxRetries
       THEN BeginAttempt(w, w.attempt + 1)
       ELSE WaitDone(w, [NoResult EXCEPT !.kind = "timeout", !.polled = w.polled,
                                         !.stale = w.stale])

\* the while test of the poll loop; falling out of it goes to the next attempt or the timeout result
ContinueWait(w) ==
  IF Now - w.waitStart < w.timeoutMs
  THEN [w EXCEPT !.pc = "poll", !.polled = TRUE]
  ELSE IF w.attempt + 1 <= w.maxRetries
       THEN BeginAttempt(w, w.attempt + 1)
       ELSE WaitDone(w, [NoResult EXCEPT !.kind = "timeout", !.polled = w.polled,
                                         !.stale = w.stale])

NetAfter(w) ==
  IF w.pc \in {"baseline", "poll"}
  THEN [net EXCEPT !["wait"] = Request("status", w.key)]
  ELSE [net EXCEPT !["wait"] = NetIdle]

HistAttempt(hh, w) ==
  IF w.pc = "baseline" /\ hh.track = "fresh"
  THEN [hh EXCEPT !.stage = "pre", !.goodDone = FALSE]
  ELSE hh

\* probeWaitHit from its entry to the first await
probeWaitHit(argKey, lineHint, timeoutArg, retriesArg) ==
  LET timeoutMs == clampInt(IF timeoutArg = NoArg THEN DEFAULT_PROBE_TIMEOUT_MS ELSE timeoutArg,
                            1000, HARD_MAX_PROBE_TIMEOUT_MS)
      maxRetries == clampInt(IF retriesArg = NoArg THEN DEFAULT_PROBE_WAIT_MAX_RETRIES
                             ELSE retriesArg,
                             1, HARD_MAX_PROBE_WAIT_MAX_RETRIES)
      resolvedKey == resolveProbeKey(argKey, lineHint)
      w0 == [WaitIdle EXCEPT !.calls = wait.calls + 1, !.argKey = argKey, !.lineHint = lineHint, !.key = resolvedKey,
                             !.timeoutMs = timeoutMs, !.maxRetries = maxRetries]
      h0 == hist
  IN /\ wait.pc \in {"idle", "done"}
     /\ wait.calls < MaxCalls
     /\ IF ~isLineKey(resolvedKey)
        THEN /\ wait' = WaitDone(w0, [NoResult EXCEPT !.kind = "line_key_required"])
             /\ hist' = h0
             /\ UNCHANGED net
        ELSE /\ resolvedKey \in RtKeys
             /\ wait' = BeginAttempt(w0, 1)
             /\ net' = NetAfter(wait')
             /\ hist' = HistAttempt(
                          [h0 EXCEPT !.freshDone = FALSE, !.seen = FALSE, !.must = FALSE,
                                     !.staleSeen = FALSE,
                                     !.firstEver = /\ hist.track = "fresh"
                                                   /\ LAST_RESET_EPOCH_BY_KEY[resolvedKey] = Absent
                                                   /\ srv.pc # "reset",
                                     !.phase = IF /\ @ = 2 /\ resolvedKey = KeyLine
                                                  /\ \/ hist.track # "applied"
                                                     \/ rst.pc = "done" /\ rst.recorded
                                               THEN 3 ELSE @],
                          wait')
     /\ UNCHANGED <<recipe, infer, act, search, agent, srv, hitVars, cfgVars, LAST_RESET_EPOCH_BY_KEY, rst, stat>>

baselineInline_Strict(baselineHitCount, baselineLastHitEpochMs, inlineStartEpochMs) ==
  /\ baselineHitCount > 0
  /\ baselineLastHitEpochMs > 0
  /\ baselineLastHitEpochMs > inlineStartEpochMs

\* the baseline check: baselineHitCount > 0 && baselineLastHitEpochMs > 0 && ... >= inlineStartEpochMs
baselineInline(baselineHitCount, baselineLastHitEpochMs, inlineStartEpochMs) ==
  /\ baselineHitCount > 0
  /\ baselineLastHitEpochMs > 0
  /\ baselineLastHitEpochMs >= inlineStartEpochMs

isInlineByCount_NonNegative(hitDelta) == hitDelta >= 0

isInlineByCount(hitDelta) == hitDelta > 0

isInlineByTime_Strict(lastHitEpochMs, inlineStartEpochMs) == lastHitEpochMs > inlineStartEpochMs

isInlineByTime(lastHitEpochMs, inlineStartEpochMs) == lastHitEpochMs >= inlineStartEpochMs

isInline_CountOnly(hitDelta, lastHitEpochMs, inlineStartEpochMs) == isInlineByCount(hitDelta)

\* the poll check: isInline = isInlineByCount && isInlineByTime
isInline(hitDelta, lastHitEpochMs, inlineStartEpochMs) ==
  isInlineByCount(hitDelta) /\ isInlineByTime(lastHitEpochMs, inlineStartEpochMs)

\* probeWaitHit resumes with the baseline status: the baseline check, then the first while test
WaitOnBaseline ==
  LET r == net["wait"]
      w == [wait EXCEPT !.baselineCount = r.hitCount, !.baselineLast = r.lastHitEpochMs]
  IN /\ wait.pc = "baseline"
     /\ r.st = "resp"
     /\ wait' = IF baselineInline(w.baselineCount, w.baselineLast, w.inlineStart)
                THEN WaitDone(w, WaitHit(w, "baseline", r))
                ELSE ContinueWait(w)
     /\ net' = NetAfter(wait')
     /\ hist' = HistAttempt(hist, wait')
     /\ UNCHANGED <<recipe, infer, act, search, agent, srv, hitVars, cfgVars, LAST_RESET_EPOCH_BY_KEY, rst, stat>>

\* probeWaitHit resumes with a poll status: inline test, stale candidate, then the sleep
WaitOnPoll ==
  LET r == net["wait"]
      hitDelta == r.hitCount - wait.baselineCount
  IN /\ wait.pc = "poll"
     /\ r.st = "resp"
     /\ wait' = IF isInline(hitDelta, r.lastHitEpochMs, wait.inlineStart)
                THEN WaitDone(wait, WaitHit(wait, "poll", r))
                ELSE IF /\ isInlineByCount(hitDelta)
                        /\ ~isInlineByTime(r.lastHitEpochMs, wait.inlineStart)
                THEN [wait EXCEPT !.pc = "sleep",
                                  !.stale = [set |-> TRUE, hitCount |-> r.hitCount,
                                             hitDelta |-> hitDelta,
                                             lastHitEpochMs |-> r.lastHitEpochMs]]
                ELSE [wait EXCEPT !.pc = "sleep"]
     /\ net' = [net EXCEPT !["wait"] = NetIdle]
     /\ hist' = IF /\ ~isInline(hitDelta, r.lastHitEpochMs, wait.inlineStart)
                   /\ isInlineByCount(hitDelta)
                   /\ ~isInlineByTime(r.lastHitEpochMs, wait.inlineStart)
                THEN [hist EXCEPT !.staleSeen = TRUE,
                                  !.staleBaseline = wait.baselineCount,
                                  !.staleInlineStart = wait.inlineStart]
                ELSE hist
     /\ UNCHANGED <<recipe, infer, act, search, agent, srv, hitVars, cfgVars, LAST_RESET_EPOCH_BY_KEY, rst, stat>>

\* the poll-interval timer fires: back to the while test
WaitAfterSleep ==
  /\ wait.pc = "sleep"
  /\ wait' = ContinueWait(wait)
  /\ net' = NetAfter(wait')
  /\ hist' = HistAttempt(hist, wait')
  /\ UNCHANGED <<recipe, infer, act, search, agent, srv, hitVars, cfgVars, LAST_RESET_EPOCH_BY_KEY, rst, stat>>

\* the rejection is swallowed and the loop goes on
WaitOnError_NextAttempt ==
  /\ wait.pc \in {"baseline", "poll"}
  /\ net["wait"].st = "error"
  /\ wait' = ContinueWait(wait)
  /\ net' = NetAfter(wait')
  /\ UNCHANGED <<recipe, infer, act, search, agent, srv, hitVars, cfgVars, LAST_RESET_EPOCH_BY_KEY, rst, stat, hist>>

\* fetchJson rejects inside probeStatus: probeWaitHit throws the unreachable message
WaitOnError ==
  /\ wait.pc \in {"baseline", "poll"}
  /\ net["wait"].st = "error"
  /\ wait' = WaitDone(wait, [NoResult EXCEPT !.kind = "threw", !.polled = wait.polled,
                                             !.error = probeUnreachableMessage(statusUrl(wait.key))])
  /\ net' = [net EXCEPT !["wait"] = NetIdle]
  /\ UNCHANGED <<recipe, infer, act, search, agent, srv, hitVars, cfgVars, LAST_RESET_EPOCH_BY_KEY, rst, stat, hist>>

CallIdle == [pc |-> "idle", calls |-> 0,
             argKey |-> <<>>, lineHint |-> NoHint, key |-> <<>>,
             sent |-> FALSE, recorded |-> FALSE, result |-> "none",
             hitCount |-> 0, lastHitEpochMs |-> 0, error |-> NoError]

\* probeReset from its entry to the await of fetchJson
probeReset(argKey, lineHint) ==
  LET resolvedKey == resolveProbeKey(argKey, lineHint)
      c0 == [CallIdle EXCEPT !.calls = rst.calls + 1,
                             !.argKey = argKey, !.lineHint = lineHint, !.key = resolvedKey]
  IN /\ rst.pc \in {"idle", "done"}
     /\ rst.calls < MaxCalls
     /\ IF ~isLineKey(resolvedKey)
        THEN /\ rst' = [c0 EXCEPT !.pc = "done", !.result = "line_key_required"]
             /\ UNCHANGED net
        ELSE /\ resolvedKey \in RtKeys
             /\ rst' = [c0 EXCEPT !.pc = "await", !.sent = TRUE]
             /\ net' = [net EXCEPT !["rst"] = Request("reset", resolvedKey)]
     /\ UNCHANGED <<recipe, infer, act, search, agent, srv, hitVars, cfgVars, LAST_RESET_EPOCH_BY_KEY, wait, stat, hist>>

\* the epoch recorded for the key is one tick ahead of Date.now()
ResetOnResponse_EpochAhead ==
  LET r == net["rst"]
      ok == r.code >= 200 /\ r.code < 300
  IN /\ rst.pc = "await"
     /\ r.st = "resp"
     /\ LAST_RESET_EPOCH_BY_KEY' =
          IF ok THEN [LAST_RESET_EPOCH_BY_KEY EXCEPT ![rst.key] = Now + MsPerTick]
          ELSE LAST_RESET_EPOCH_BY_KEY
     /\ rst' = [rst EXCEPT !.pc = "done", !.recorded = ok,
                           !.result = IF ok THEN "reset_done" ELSE "reset_failed"]
     /\ net' = [net EXCEPT !["rst"] = NetIdle]
     /\ hist' = [hist EXCEPT !.phase = IF hist.track = "sequence" /\ ok /\ rst.key = KeyLine
                                       THEN 1 ELSE @,
                             !.firstEver = IF ok /\ rst.key = wait.key THEN FALSE ELSE @]
     /\ UNCHANGED <<recipe, infer, act, search, agent, srv, hitVars, cfgVars, wait, stat>>

\* probeReset resumes with the response: a 2xx status records Date.now() for the key
ResetOnResponse ==
  LET r == net["rst"]
      ok == r.code >= 200 /\ r.code < 300
  IN /\ rst.pc = "await"
     /\ r.st = "resp"
     /\ LAST_RESET_EPOCH_BY_KEY' =
          IF ok THEN [LAST_RESET_EPOCH_BY_KEY EXCEPT ![rst.key] = Now]
          ELSE LAST_RESET_EPOCH_BY_KEY
     /\ rst' = [rst EXCEPT !.pc = "done", !.recorded = ok,
                           !.result = IF ok THEN "reset_done" ELSE "reset_failed"]
     /\ net' = [net EXCEPT !["rst"] = NetIdle]
     /\ hist' = [hist EXCEPT !.phase = IF hist.track = "sequence" /\ ok /\ rst.key = KeyLine
                                       THEN 1 ELSE @,
                             !.firstEver = IF ok /\ rst.key = wait.key THEN FALSE ELSE @]
     /\ UNCHANGED <<recipe, infer, act, search, agent, srv, hitVars, cfgVars, wait, stat>>

\* fetchJson rejects: probeReset throws the unreachable message
ResetOnError ==
  /\ rst.pc = "await"
  /\ net["rst"].st = "error"
  /\ rst' = [rst EXCEPT !.pc = "done", !.result = "threw",
                        !.error = probeUnreachableMessage(resetUrl)]
  /\ net' = [net EXCEPT !["rst"] = NetIdle]
  /\ UNCHANGED <<recipe, infer, act, search, agent, srv, hitVars, cfgVars, LAST_RESET_EPOCH_BY_KEY, wait, stat, hist>>

\* probeStatus (called as a tool) from its entry to the await of fetchJson
probeStatus(argKey, lineHint) ==
  LET resolvedKey == resolveProbeKey(argKey, lineHint)
      c0 == [CallIdle EXCEPT !.calls = stat.calls + 1,
                             !.argKey = argKey, !.lineHint = lineHint, !.key = resolvedKey]
  IN /\ stat.pc \in {"idle", "done"}
     /\ stat.calls < MaxCalls
     /\ IF ~isLineKey(resolvedKey)
        THEN /\ stat' = [c0 EXCEPT !.pc = "done", !.result = "line_key_required"]
             /\ UNCHANGED net
        ELSE /\ resolvedKey \in RtKeys
             /\ stat' = [c0 EXCEPT !.pc = "await", !.sent = TRUE]
             /\ net' = [net EXCEPT !["stat"] = Request("status", resolvedKey)]
     /\ UNCHANGED <<recipe, infer, act, search, agent, srv, hitVars, cfgVars, LAST_RESET_EPOCH_BY_KEY, wait, rst, hist>>

\* probeStatus resumes with the response
StatusOnResponse ==
  /\ stat.pc = "await"
  /\ net["stat"].st = "resp"
  /\ stat' = [stat EXCEPT !.pc = "done", !.result = "status_checked",
                          !.hitCount = net["stat"].hitCount,
                          !.lastHitEpochMs = net["stat"].lastHitEpochMs]
  /\ net' = [net EXCEPT !["stat"] = NetIdle]
  /\ UNCHANGED <<recipe, infer, act, search, agent, srv, hitVars, cfgVars, LAST_RESET_EPOCH_BY_KEY, wait, rst, hist>>

\* fetchJson rejects: probeStatus throws the unreachable message
StatusOnError ==
  /\ stat.pc = "await"
  /\ net["stat"].st = "error"
  /\ stat' = [stat EXCEPT !.pc = "done", !.result = "threw",
                          !.error = probeUnreachableMessage(statusUrl(stat.key))]
  /\ net' = [net EXCEPT !["stat"] = NetIdle]
  /\ UNCHANGED <<recipe, infer, act, search, agent, srv, hitVars, cfgVars, LAST_RESET_EPOCH_BY_KEY, wait, rst, hist>>

\* the arguments of probe_actuate: Null is an omitted string, <<>> an omitted boolean
\* (and, as a targetKey, the empty string)
ActArgs ==
  [mode : {Null, Observe, Actuate},
   actuatorId : {Null},
   targetKey : {Null, <<>>, KeyLine, KeyMethod, KeyNoClass},
   returnBoolean : {<<>>, <<TRUE>>}]

ActIdle == [pc |-> "idle", calls |-> 0, args |-> NoBody, sent |-> FALSE,
            result |-> "none", error |-> NoError]

\* no strict-line test in front of the request
refusesToArm_Never(args) == FALSE

\* the strict-line test of probeActuate: mode actuate with a targetKey that is missing,
\* empty or not a line key
refusesToArm(args) ==
  /\ args.mode = Actuate
  /\ \/ args.targetKey = Null
     \/ isEmpty(args.targetKey)
     \/ ~isLineKey(args.targetKey)

\* probeActuate from its entry to the await of fetchJson: the body carries the
\* arguments that were given
probeActuate(args) ==
  LET c0 == [ActIdle EXCEPT !.calls = act.calls + 1, !.args = args]
  IN /\ act.pc \in {"idle", "done"}
     /\ act.calls < MaxCalls
     /\ IF refusesToArm(args)
        THEN /\ act' = [c0 EXCEPT !.pc = "done", !.result = "line_key_required"]
             /\ UNCHANGED net
        ELSE /\ act' = [c0 EXCEPT !.pc = "await", !.sent = TRUE]
             /\ net' = [net EXCEPT !["act"] = [Request("actuate", <<>>) EXCEPT !.body = args]]
     /\ UNCHANGED <<recipe, search, infer, agent, srv, hitVars, cfgVars, LAST_RESET_EPOCH_BY_KEY, wait, rst, stat, hist>>

\* probeActuate resumes with the response
ActuateOnResponse ==
  LET r == net["act"]
      ok == r.code >= 200 /\ r.code < 300
  IN /\ act.pc = "await"
     /\ r.st = "resp"
     /\ act' = [act EXCEPT !.pc = "done",
                           !.result = IF ok THEN "actuation_applied" ELSE "actuation_failed"]
     /\ net' = [net EXCEPT !["act"] = NetIdle]
     /\ UNCHANGED <<recipe, search, infer, agent, srv, hitVars, cfgVars, LAST_RESET_EPOCH_BY_KEY, wait, rst, stat, hist>>

\* fetchJson rejects: probeActuate throws the unreachable message
ActuateOnError ==
  /\ act.pc = "await"
  /\ net["act"].st = "error"
  /\ act' = [act EXCEPT !.pc = "done", !.result = "threw",
                        !.error = probeUnreachableMessage(actuateUrl)]
  /\ net' = [net EXCEPT !["act"] = NetIdle]
  /\ UNCHANGED <<recipe, search, infer, agent, srv, hitVars, cfgVars, LAST_RESET_EPOCH_BY_KEY, wait, rst, stat, hist>>

----------------------------------------------------------------------------
(* Runtime configuration: configure() on the control-plane thread, and the reads *)
(* issued by instrumented bytecode on an application thread                      *)

CfgModes == {Null, <<>>, <<" ">>, Observe, Actuate,
             <<" ", "A", "c", "t", "u", "a", "t", "e", " ">>, <<"x">>}
CfgActuatorIds == {<<"a">>, <<" ", "a">>}
CfgTargets == {Null, <<>>, <<" ">> \o KeyLine, KeyMethod, LineKey(ClassC, MethodM, 0)}
CfgBooleans == {<<>>, <<TRUE>>, <<FALSE>>}    \* a java.lang.Boolean: <<>> is null

\* JSON bodies posted to /__probe/actuate: every field omitted or given, the mode also
\* blank, padded in mixed case, or unknown
ActuateBodies ==
  [mode : {Null, <<" ">>, Observe, <<" ", "A", "c", "t", "u", "a", "t", "e", " ">>, <<"x">>},
   actuatorId : {Null, <<" ", "a">>},
   targetKey : {Null, <<" ">> \o KeyLine, KeyMethod},
   returnBoolean : CfgBooleans]

ReadSites == {<<ClassC, MethodM>>, <<ClassD, MethodM>>, <<ClassC, MethodN>>}
ReadLines == {0, 7, 8}

CurrentCfg == [mode |-> MODE, actuatorId |-> ACTUATOR_ID,
               targetKey |-> ACTUATE_TARGET_KEY, returnBoolean |-> ACTUATE_RETURN_BOOLEAN]

configureFields_KeepTarget(mode, actuatorId, actuateTargetKey, actuateReturnBoolean) ==
  LET m == IF mode = Null \/ isBlank(mode) THEN Observe ELSE toLowerCase(trim(mode))
  IN [mode |-> IF m # Actuate THEN Observe ELSE Actuate,
      actuatorId |-> IF m # Actuate \/ actuatorId = Null THEN <<>> ELSE trim(actuatorId),
      targetKey |-> IF actuateTargetKey = Null THEN <<>> ELSE trim(actuateTargetKey),
      returnBoolean |-> m = Actuate /\ actuateReturnBoolean]

\* ProbeRuntime.configure: the values it assigns to the four fields
configureFields(mode, actuatorId, actuateTargetKey, actuateReturnBoolean) ==
  LET m == IF mode = Null \/ isBlank(mode) THEN Observe ELSE toLowerCase(trim(mode))
  IN IF m # Actuate
     THEN ObserveCfg
     ELSE [mode |-> Actuate,
           actuatorId |-> IF actuatorId = Null THEN <<>> ELSE trim(actuatorId),
           targetKey |-> IF actuateTargetKey = Null THEN <<>> ELSE trim(actuateTargetKey),
           returnBoolean |-> actuateReturnBoolean]

normalizeMode(raw) ==
  IF raw = Null THEN Observe
  ELSE IF toLowerCase(trim(raw)) = Actuate THEN Actuate ELSE Observe

normalizeActuatorId(raw) == IF raw = Null THEN <<>> ELSE trim(raw)

normalizeTargetKey(raw) == IF raw = Null THEN <<>> ELSE trim(raw)

\* AgentConfig.fromAgentArgs, the mode and actuation fields
fromAgentArgs(mode, actuatorId, actuateTargetKey, actuateReturnBoolean) ==
  LET m == normalizeMode(mode)
  IN [mode |-> m,
      actuatorId |-> IF m # Actuate THEN <<>> ELSE normalizeActuatorId(actuatorId),
      targetKey |-> IF m # Actuate THEN <<>> ELSE normalizeTargetKey(actuateTargetKey),
      returnBoolean |-> actuateReturnBoolean]

CfgWriting == {"setMode", "setActuatorId", "setTargetKey", "setReturnBoolean"}

\* an HTTP client posts a JSON body to /__probe/actuate
ExtSendActuate(body) ==
  /\ net["ext"].st = "idle"
  /\ srv.configures < MaxConfigures
  /\ net' = [net EXCEPT !["ext"] = [Request("actuate", <<>>) EXCEPT !.body = body]]
  /\ UNCHANGED <<srv, hitVars, cfgVars, planVars, agent, hist>>

\* the four arguments ActuateHandler.handle passes to ProbeRuntime.configure, with a
\* mode that is present taken from the body even when it is blank
effectiveArgs_ModeWhenPresent(body) ==
  [mode |-> IF body.mode = Null THEN MODE ELSE body.mode,
   actuatorId |-> IF body.actuatorId = Null THEN ACTUATOR_ID ELSE body.actuatorId,
   targetKey |-> IF body.targetKey = Null THEN ACTUATE_TARGET_KEY ELSE body.targetKey,
   returnBoolean |-> IF Len(body.returnBoolean) = 0 THEN ACTUATE_RETURN_BOOLEAN
                     ELSE body.returnBoolean[1]]

\* the four arguments ActuateHandler.handle passes to ProbeRuntime.configure
effectiveArgs(body) ==
  [mode |-> IF body.mode = Null \/ isBlank(body.mode) THEN MODE ELSE body.mode,
   actuatorId |-> IF body.actuatorId = Null THEN ACTUATOR_ID ELSE body.actuatorId,
   targetKey |-> IF body.targetKey = Null THEN ACTUATE_TARGET_KEY ELSE body.targetKey,
   returnBoolean |-> IF Len(body.returnBoolean) = 0 THEN ACTUATE_RETURN_BOOLEAN
                     ELSE body.returnBoolean[1]]

\* ActuateHandler.handle for a POST, up to the entry of ProbeRuntime.configure: the
\* body is read, absent body fields take the current values (this thread is the only
\* writer)
ActuateHandler(c) ==
  LET effective == effectiveArgs(net[c].body)
      new == configureFields(effective.mode, effective.actuatorId, effective.targetKey,
                             effective.returnBoolean)
  IN /\ srv.pc = "idle"
     /\ net[c].st = "req"
     /\ net[c].kind = "actuate"
     /\ methodAllowed(net[c])
     /\ srv.configures < MaxConfigures
     /\ srv' = [SrvIdle EXCEPT !.pc = "setMode", !.from = c,
                               !.configures = srv.configures + 1,
                               !.old = CurrentCfg, !.cfg = new]
     /\ net' = [net EXCEPT ![c].body = NoBody]
     /\ hist' = [hist EXCEPT !.cands = IF reader.pc \in {"idle", "done"} THEN @
                                        ELSE @ \cup {new},
                             !.rdQuiet = FALSE,
                             !.observeDone = IF new.mode = Actuate THEN FALSE ELSE @,
                             !.rdObs = IF new.mode = Actuate THEN FALSE ELSE @,
                             !.body = IF hist.track = "actuate" THEN net[c].body ELSE @,
                             !.before = IF hist.track = "actuate" THEN CurrentCfg ELSE @]
     /\ UNCHANGED <<hitVars, cfgVars, planVars, agent>>

\* configure: MODE = ...
configureSetMode ==
  /\ srv.pc = "setMode"
  /\ MODE' = srv.cfg.mode
  /\ srv' = [srv EXCEPT !.pc = "setActuatorId"]
  /\ UNCHANGED <<net, hitVars, ACTUATOR_ID, ACTUATE_TARGET_KEY, ACTUATE_RETURN_BOOLEAN,
                 reader, planVars, agent, hist>>

\* configure: ACTUATOR_ID = ...
configureSetActuatorId ==
  /\ srv.pc = "setActuatorId"
  /\ ACTUATOR_ID' = srv.cfg.actuatorId
  /\ srv' = [srv EXCEPT !.pc = "setTargetKey"]
  /\ UNCHANGED <<net, hitVars, MODE, ACTUATE_TARGET_KEY, ACTUATE_RETURN_BOOLEAN,
                 reader, planVars, agent, hist>>

\* configure: ACTUATE_TARGET_KEY = ...
configureSetTargetKey ==
  /\ srv.pc = "setTargetKey"
  /\ ACTUATE_TARGET_KEY' = srv.cfg.targetKey
  /\ srv' = [srv EXCEPT !.pc = "setReturnBoolean"]
  /\ UNCHANGED <<net, hitVars, MODE, ACTUATOR_ID, ACTUATE_RETURN_BOOLEAN,
                 reader, planVars, agent, hist>>

\* configure: ACTUATE_RETURN_BOOLEAN = ...; configure returns and the handler answers 200
\* with what the four getters return
configureSetReturnBoolean ==
  /\ srv.pc = "setReturnBoolean"
  /\ ACTUATE_RETURN_BOOLEAN' = srv.cfg.returnBoolean
  /\ net' = [net EXCEPT ![srv.from] =
               [NetIdle EXCEPT !.st = "resp", !.kind = "actuate", !.code = 200,
                               !.cfg = [mode |-> MODE, actuatorId |-> ACTUATOR_ID,
                                        targetKey |-> ACTUATE_TARGET_KEY,
                                        returnBoolean |-> srv.cfg.returnBoolean]]]
  /\ srv' = [srv EXCEPT !.pc = "idle", !.from = "none"]
  /\ hist' = [hist EXCEPT !.observeDone = (srv.cfg.mode # Actuate)]
  /\ UNCHANGED <<hitVars, MODE, ACTUATOR_ID, ACTUATE_TARGET_KEY, reader, planVars, agent>>

ReaderIdle == [pc |-> "idle", fn |-> "none", c |-> <<>>, m |-> <<>>, line |-> 0,
               ret |-> FALSE, result |-> -1, should |-> FALSE, returnValue |-> FALSE,
               opcode |-> "none", code |-> <<>>, operands |-> <<>>, stack |-> <<>>,
               exit |-> "none"]

\* instrumented bytecode calls branchDecisionByClassMethodLine (at a conditional jump)
\* or BooleanActuationAdvice.onExit (at the exit of a boolean method returning ret)
ReaderCall(fn, c, m, line, ret) ==
  /\ reader.pc \in {"idle", "done"}
  /\ reader' = [ReaderIdle EXCEPT !.pc = "readMode", !.fn = fn, !.c = c, !.m = m,
                                  !.line = line, !.ret = ret, !.returnValue = ret]
  /\ hist' = [hist EXCEPT !.cands = IF srv.pc \in CfgWriting THEN {srv.old, srv.cfg}
                                     ELSE {CurrentCfg},
                          !.rdQuiet = srv.pc \notin CfgWriting,
                          !.rdObs = hist.observeDone]
  /\ UNCHANGED <<srv, net, hitVars, MODE, ACTUATOR_ID, ACTUATE_TARGET_KEY,
                 ACTUATE_RETURN_BOOLEAN, planVars, agent>>

onExit_Always(should, returnValue, forced) == forced

\* BooleanActuationAdvice.onExit: the return value the method hands back
onExit(should, returnValue, forced) == IF should THEN forced ELSE returnValue

\* the read declines: branchDecisionByClassMethodLine returns -1,
\* shouldActuateBooleanReturn returns false and onExit returns at once
ReaderDeclined(r) ==
  [r EXCEPT !.pc = "done", !.result = -1, !.should = FALSE,
            !.returnValue = IF r.fn = "onExit"
                            THEN onExit(FALSE, r.ret, ACTUATE_RETURN_BOOLEAN) ELSE @]

\* if (!"actuate".equals(MODE)) return ...
ReaderReadMode ==
  /\ reader.pc = "readMode"
  /\ reader' = IF MODE # Actuate THEN ReaderDeclined(reader)
               ELSE [reader EXCEPT !.pc = "readBlank"]
  /\ UNCHANGED <<srv, net, hitVars, MODE, ACTUATOR_ID, ACTUATE_TARGET_KEY,
                 ACTUATE_RETURN_BOOLEAN, planVars, agent, hist>>

invalidCallSite_AnyLine(fn, c, m, line) == isBlank(c) \/ isBlank(m)

\* the argument checks: blank class or method name, lineNumber <= 0
invalidCallSite(fn, c, m, line) ==
  \/ isBlank(c)
  \/ isBlank(m)
  \/ fn = "branchDecisionByClassMethodLine" /\ line <= 0

\* if (ACTUATE_TARGET_KEY == null || ACTUATE_TARGET_KEY.isBlank()) return ...; argument checks
ReaderReadBlank ==
  /\ reader.pc = "readBlank"
  /\ reader' = IF \/ isBlank(ACTUATE_TARGET_KEY)
                  \/ invalidCallSite(reader.fn, reader.c, reader.m, reader.line)
               THEN ReaderDeclined(reader)
               ELSE [reader EXCEPT !.pc = "readKey"]
  /\ UNCHANGED <<srv, net, hitVars, MODE, ACTUATOR_ID, ACTUATE_TARGET_KEY,
                 ACTUATE_RETURN_BOOLEAN, planVars, agent, hist>>

\* ACTUATE_TARGET_KEY.equals(key)
ReaderReadKey ==
  LET key == IF reader.fn = "branchDecisionByClassMethodLine"
             THEN LineKey(reader.c, reader.m, reader.line)
             ELSE MethodKey(reader.c, reader.m)
  IN /\ reader.pc = "readKey"
     /\ reader' = IF ACTUATE_TARGET_KEY # key THEN ReaderDeclined(reader)
                  ELSE [reader EXCEPT !.pc = "readBoolean", !.should = TRUE]
     /\ UNCHANGED <<srv, net, hitVars, MODE, ACTUATOR_ID, ACTUATE_TARGET_KEY,
                    ACTUATE_RETURN_BOOLEAN, planVars, agent, hist>>

\* return ACTUATE_RETURN_BOOLEAN ? 1 : 0;  or  returnValue = getActuateReturnBoolean()
ReaderReadBoolean ==
  /\ reader.pc = "readBoolean"
  /\ reader' = [reader EXCEPT
                  !.pc = "done",
                  !.result = IF reader.fn = "onExit" THEN @
                             ELSE IF ACTUATE_RETURN_BOOLEAN THEN 1 ELSE 0,
                  !.returnValue = IF reader.fn = "onExit"
                                  THEN onExit(TRUE, reader.ret, ACTUATE_RETURN_BOOLEAN)
                                  ELSE @]
  /\ UNCHANGED <<srv, net, hitVars, MODE, ACTUATOR_ID, ACTUATE_TARGET_KEY,
                 ACTUATE_RETURN_BOOLEAN, planVars, agent, hist>>


\* a bytecode instruction: v is the constant of ICONST, to the label a jump goes to or a
\* LABEL names ("label" is the target of the application's own jump)
Insn(op) == [op |-> op, v |-> 0, to |-> "none"]
Iconst(v) == [op |-> "ICONST", v |-> v, to |-> "none"]
JumpInsn(op, to) == [op |-> op, v |-> 0, to |-> to]
LabelInsn(name) == [op |-> "LABEL", v |-> 0, to |-> name]

UnaryConditionalJumps == {"IFEQ", "IFNE", "IFLT", "IFGE", "IFGT", "IFLE", "IFNULL", "IFNONNULL"}
BinaryConditionalJumps == {"IF_ICMPEQ", "IF_ICMPNE", "IF_ICMPLT", "IF_ICMPGE", "IF_ICMPGT",
                           "IF_ICMPLE", "IF_ACMPEQ", "IF_ACMPNE"}

isConditionalJumpOpcode(opcode) == opcode \in UnaryConditionalJumps \cup BinaryConditionalJumps

isUnaryConditionalJump(opcode) == opcode \in UnaryConditionalJumps

\* one operand is dropped whatever the jump
popConditionalOperands_AlwaysPop(opcode) == <<Insn("POP")>>

popConditionalOperands(opcode) ==
  IF isUnaryConditionalJump(opcode) THEN <<Insn("POP")>> ELSE <<Insn("POP2")>>

\* the original condition runs when the decision is 0 instead of -1
visitJumpInsn_NaturalOnZero(opcode, currentLine) ==
  IF ~isConditionalJumpOpcode(opcode) \/ currentLine <= 0
  THEN <<JumpInsn(opcode, "label")>>
  ELSE <<Insn("INVOKESTATIC"),
         Insn("DUP"), Iconst(0), JumpInsn("IF_ICMPEQ", "naturalPath"),
         Insn("DUP"), Iconst(1), JumpInsn("IF_ICMPEQ", "forceTaken"),
         Insn("POP")>> \o popConditionalOperands(opcode) \o <<JumpInsn("GOTO", "done"),
         LabelInsn("forceTaken"),
         Insn("POP")>> \o popConditionalOperands(opcode) \o <<JumpInsn("GOTO", "label"),
         LabelInsn("naturalPath"),
         Insn("POP"), JumpInsn(opcode, "label"),
         LabelInsn("done")>>

\* LineHitVisitor.visitJumpInsn: the instructions written in place of a jump of the
\* application at source line currentLine; INVOKESTATIC is the call of
\* ProbeRuntime.branchDecisionByClassMethodLine with the class, the method and the line
visitJumpInsn(opcode, currentLine) ==
  IF ~isConditionalJumpOpcode(opcode) \/ currentLine <= 0
  THEN <<JumpInsn(opcode, "label")>>
  ELSE <<Insn("INVOKESTATIC"),
         Insn("DUP"), Iconst(-1), JumpInsn("IF_ICMPEQ", "naturalPath"),
         Insn("DUP"), Iconst(1), JumpInsn("IF_ICMPEQ", "forceTaken"),
         Insn("POP")>> \o popConditionalOperands(opcode) \o <<JumpInsn("GOTO", "done"),
         LabelInsn("forceTaken"),
         Insn("POP")>> \o popConditionalOperands(opcode) \o <<JumpInsn("GOTO", "label"),
         LabelInsn("naturalPath"),
         Insn("POP"), JumpInsn(opcode, "label"),
         LabelInsn("done")>>

\* the JVM's test for a conditional jump on the operand stack (a reference is an
\* address, null is 0); the last element of the stack is its top
jumpCondition(opcode, stack) ==
  LET top == stack[Len(stack)]
      below == stack[Len(stack) - 1]
  IN CASE opcode \in {"IFEQ", "IFNULL"} -> top = 0
       [] opcode \in {"IFNE", "IFNONNULL"} -> top # 0
       [] opcode = "IFLT" -> top < 0
       [] opcode = "IFGE" -> top >= 0
       [] opcode = "IFGT" -> top > 0
       [] opcode = "IFLE" -> top <= 0
       [] opcode \in {"IF_ICMPEQ", "IF_ACMPEQ"} -> below = top
       [] opcode \in {"IF_ICMPNE", "IF_ACMPNE"} -> below # top
       [] opcode = "IF_ICMPLT" -> below < top
       [] opcode = "IF_ICMPGE" -> below >= top
       [] opcode = "IF_ICMPGT" -> below > top
       [] opcode = "IF_ICMPLE" -> below <= top

\* the JVM executing code from instruction i on: where control leaves the code (the
\* application's label, or past the end) and the operand stack it leaves
RECURSIVE execute(_, _, _)
execute(code, i, stack) ==
  LET drop(n) == SubSeq(stack, 1, Len(stack) - n)
      at(name) == CHOOSE j \in 1..Len(code) : code[j].op = "LABEL" /\ code[j].to = name
      goto(name, st) == IF name = "label" THEN [exit |-> "taken", stack |-> st]
                        ELSE execute(code, at(name), st)
  IN IF i > Len(code) THEN [exit |-> "fallthrough", stack |-> stack]
     ELSE LET insn == code[i]
          IN CASE insn.op = "DUP" -> execute(code, i + 1, stack \o <<stack[Len(stack)]>>)
               [] insn.op = "ICONST" -> execute(code, i + 1, stack \o <<insn.v>>)
               [] insn.op = "POP" -> execute(code, i + 1, drop(1))
               [] insn.op = "POP2" -> execute(code, i + 1, drop(2))
               [] insn.op = "LABEL" -> execute(code, i + 1, stack)
               [] insn.op = "GOTO" -> goto(insn.to, stack)
               [] insn.op \in UnaryConditionalJumps ->
                    IF jumpCondition(insn.op, stack) THEN goto(insn.to, drop(1))
                    ELSE execute(code, i + 1, drop(1))
               [] insn.op \in BinaryConditionalJumps ->
                    IF jumpCondition(insn.op, stack) THEN goto(insn.to, drop(2))
                    ELSE execute(code, i + 1, drop(2))

\* the jumps of the application: an opcode with the operands it finds on the stack,
\* above one value of the enclosing expression
StackBelow == <<7>>
JumpOperands(opcode) ==
  IF opcode \in {"IFNULL", "IFNONNULL"} THEN {<<0>>, <<1>>}
  ELSE IF opcode \in UnaryConditionalJumps THEN {<<0 - 1>>, <<0>>, <<1>>}
  ELSE IF opcode \in {"IF_ACMPEQ", "IF_ACMPNE"} THEN {<<0, 0>>, <<1, 1>>, <<1, 2>>}
  ELSE IF opcode \in BinaryConditionalJumps THEN {<<0, 1>>, <<1, 0>>, <<1, 1>>}
  ELSE {<<>>}
JumpOpcodes == UnaryConditionalJumps \cup BinaryConditionalJumps \cup {"GOTO"}

\* an application thread reaches a jump of method c#m at source line `line`: an
\* instrumented jump first calls branchDecisionByClassMethodLine, any other jump runs
JumpEnter(c, m, line, opcode, operands) ==
  LET code == visitJumpInsn(opcode, line)
      stack == StackBelow \o operands
      instrumented == code[1].op = "INVOKESTATIC"
      out == execute(code, 1, stack)
  IN /\ reader.pc = "idle"
     /\ reader' = [ReaderIdle EXCEPT
                     !.pc = IF instrumented THEN "readMode" ELSE "jumped",
                     !.fn = "branchDecisionByClassMethodLine",
                     !.c = c, !.m = m, !.line = line,
                     !.opcode = opcode, !.code = code,
                     !.stack = IF instrumented THEN stack ELSE out.stack,
                     !.operands = stack,
                     !.exit = IF instrumented THEN "none" ELSE out.exit]
     /\ hist' = [hist EXCEPT !.cands = IF srv.pc \in CfgWriting THEN {srv.old, srv.cfg}
                                        ELSE {CurrentCfg},
                             !.rdQuiet = srv.pc \notin CfgWriting,
                             !.rdObs = hist.observeDone]
     /\ UNCHANGED <<srv, net, hitVars, MODE, ACTUATOR_ID, ACTUATE_TARGET_KEY,
                    ACTUATE_RETURN_BOOLEAN, planVars, agent>>

\* branchDecisionByClassMethodLine has returned: the instructions after the call run on
\* the operands with the decision on top
JumpTransfer ==
  LET out == execute(reader.code, 2, reader.stack \o <<reader.result>>)
  IN /\ reader.pc = "done"
     /\ reader.opcode # "none"
     /\ reader' = [reader EXCEPT !.pc = "jumped", !.stack = out.stack, !.exit = out.exit]
     /\ UNCHANGED <<srv, net, hitVars, MODE, ACTUATOR_ID, ACTUATE_TARGET_KEY,
                    ACTUATE_RETURN_BOOLEAN, planVars, agent, hist>>

\* the thread goes on from where the jump left it
JumpLeave ==
  /\ reader.pc = "jumped"
  /\ reader' = ReaderIdle
  /\ UNCHANGED <<srv, net, hitVars, MODE, ACTUATOR_ID, ACTUATE_TARGET_KEY,
                 ACTUATE_RETURN_BOOLEAN, planVars, agent, hist>>

----------------------------------------------------------------------------
(* recipe_generate: buildRecipeExecutionPlan and generateRecipe.            *)
(* Texts are strings, as in the planner; Undefined stands for an absent      *)
(* optional argument or field.                                               *)

Undefined == "undefined"

RecipeKey == "com.example.CatalogSpecs#finalPriceLte"
RecipeFile == "src/main/java/com/example/CatalogSpecs.java"

\* a sequence of one-character strings as one string
RECURSIVE Text(_)
Text(cs) == IF cs = <<>> THEN "" ELSE Head(cs) \o Text(Tail(cs))

\* redaction.util.ts redactSecret, on a sequence of characters
redactSecret(value) ==
  LET v == trim(value)
  IN IF Len(v) = 0 THEN <<"*", "*", "*">>
     ELSE IF Len(v) <= 8 THEN <<"*", "*", "*">>
     ELSE SubSeq(v, 1, 4) \o <<".", ".", ".">> \o SubSeq(v, Len(v) - 1, Len(v))

\* ASCII codes of the characters credentials are made of here
AsciiOf(c) ==
  CASE c = ":" -> 58
    [] c = "p" -> 112
    [] c = "r" -> 114
    [] c = "s" -> 115
    [] c = "u" -> 117
    [] c = "w" -> 119

B64Alphabet == UpperSeq \o LowerSeq \o DigitSeq \o <<"+", "/">>

\* Buffer.from(text).toString("base64")
RECURSIVE base64(_)
base64(cs) ==
  IF cs = <<>> THEN <<>>
  ELSE LET b1 == AsciiOf(cs[1])
           b2 == IF Len(cs) >= 2 THEN AsciiOf(cs[2]) ELSE 0
           b3 == IF Len(cs) >= 3 THEN AsciiOf(cs[3]) ELSE 0
           n == b1 * 65536 + b2 * 256 + b3
           c1 == B64Alphabet[(n \div 262144) + 1]
           c2 == B64Alphabet[((n \div 4096) % 64) + 1]
           c3 == IF Len(cs) >= 2 THEN B64Alphabet[((n \div 64) % 64) + 1] ELSE "="
           c4 == IF Len(cs) >= 3 THEN B64Alphabet[(n % 64) + 1] ELSE "="
       IN <<c1, c2, c3, c4>> \o (IF Len(cs) > 3 THEN base64(SubSeq(cs, 4, Len(cs))) ELSE <<>>)

\* AuthResolution values generateRecipe builds itself: when no target is inferred, and
\* when no controller mapping is found
UnresolvedAuth ==
  [required |-> "unknown", status |-> "unknown", strategy |-> "unknown",
   requestHeaders |-> <<>>, missing |-> <<>>,
   nextAction |-> "No target inferred; cannot resolve auth strategy yet."]

NoEntrypointAuth ==
  [required |-> "unknown", status |-> "needs_user_input", strategy |-> "unknown",
   requestHeaders |-> <<>>, missing |-> <<"authToken">>,
   nextAction |-> "Entrypoint/auth requirements could not be inferred. Ask user for authToken (Bearer) or confirm no auth is required."]

\* firstProvided: the trimmed value, Null for an absent or blank one
firstProvided(value) ==
  IF value = Null THEN Null
  ELSE IF trim(value) = <<>> THEN Null ELSE trim(value)

\* what readOpenApiHints can return as (required, strategy)
OpenApiHints ==
  {[required |-> FALSE, strategy |-> "none"], [required |-> FALSE, strategy |-> "unknown"]}
    \cup {[required |-> TRUE, strategy |-> st] : st \in {"bearer", "basic", "cookie", "unknown"}}

resolveAuthForRecipe_TokenUntrimmed(openapi, controllerSecure, authToken, authUsername, authPassword) ==
  LET required == openapi.required \/ controllerSecure
      strategy == IF openapi.required /\ openapi.strategy # "none" THEN openapi.strategy ELSE "unknown"
  IN IF ~required
     THEN [required |-> "false", status |-> "not_required", strategy |-> "none",
           requestHeaders |-> <<>>, missing |-> <<>>,
           nextAction |-> "No auth requirement inferred for this route."]
     ELSE IF authToken # Null
     THEN [required |-> "true", status |-> "auto_resolved", strategy |-> "bearer",
           requestHeaders |-> IF trim(authToken) = <<>> THEN <<>>
                              ELSE <<[k |-> "Authorization",
                                      v |-> <<"B", "e", "a", "r", "e", "r", " ">> \o trim(authToken)]>>,
           missing |-> <<>>,
           nextAction |-> "Use the provided Bearer token in Authorization header."]
     ELSE [required |-> "true", status |-> "needs_user_input", strategy |-> strategy,
           requestHeaders |-> <<>>, missing |-> <<"authToken">>,
           nextAction |-> "Ask user for authToken (Bearer). If unavailable, ask for authUsername/authPassword and obtain token first."]

\* auth_resolve.ts resolveAuthForRecipe, from what the OpenAPI document and the
\* controller file say and from the supplied credentials
resolveAuthForRecipe(openapi, controllerSecure, authToken, authUsername, authPassword) ==
  LET required == openapi.required \/ controllerSecure
      strategy0 == IF required THEN openapi.strategy ELSE "none"
      strategy == IF required /\ strategy0 = "none" THEN "unknown" ELSE strategy0
      token == firstProvided(authToken)
      username == firstProvided(authUsername)
      password == firstProvided(authPassword)
      missingLogin == (IF username = Null THEN <<"authUsername">> ELSE <<>>)
                        \o (IF password = Null THEN <<"authPassword">> ELSE <<>>)
  IN IF ~required
     THEN [required |-> "false", status |-> "not_required", strategy |-> "none",
           requestHeaders |-> <<>>, missing |-> <<>>,
           nextAction |-> "No auth requirement inferred for this route."]
     ELSE IF strategy = "basic"
     THEN IF username # Null /\ password # Null
          THEN [required |-> "true", status |-> "auto_resolved", strategy |-> "basic",
                requestHeaders |->
                  <<[k |-> "Authorization",
                     v |-> <<"B", "a", "s", "i", "c", " ">> \o base64(username \o <<":">> \o password)]>>,
                missing |-> <<>>,
                nextAction |-> "Use generated Basic Authorization header in the request."]
          ELSE [required |-> "true", status |-> "needs_user_input", strategy |-> "basic",
                requestHeaders |-> <<>>, missing |-> missingLogin,
                nextAction |-> "Ask user for authUsername/authPassword and rerun recipe generation."]
     ELSE IF token # Null
     THEN IF strategy = "cookie"
          THEN [required |-> "true", status |-> "auto_resolved", strategy |-> "cookie",
                requestHeaders |->
                  <<[k |-> "Cookie",
                     v |-> <<"s", "e", "s", "s", "i", "o", "n", "=">> \o token]>>,
                missing |-> <<>>,
                nextAction |-> "Use the provided token as cookie/session credential."]
          ELSE [required |-> "true", status |-> "auto_resolved", strategy |-> "bearer",
                requestHeaders |->
                  <<[k |-> "Authorization",
                     v |-> <<"B", "e", "a", "r", "e", "r", " ">> \o token]>>,
                missing |-> <<>>,
                nextAction |-> "Use the provided Bearer token in Authorization header."]
     ELSE [required |-> "true", status |-> "needs_user_input",
           strategy |-> IF strategy = "unknown" THEN "bearer" ELSE strategy,
           requestHeaders |-> <<>>, missing |-> <<"authToken">> \o missingLogin,
           nextAction |-> "Ask user for authToken (Bearer). If unavailable, ask for authUsername/authPassword and obtain token first."]

\* credentials a caller can pass: absent, blank, or a value
SecretToken == <<"t", "0", "k", "3", "n", "-", "x", "y", "z", "9">>
ArgTokens == {Null, <<" ">>, SecretToken}
ArgUsernames == {Null, <<"u", "s", "r">>}
ArgPasswords == {Null, <<>>, <<"p", "w">>}

\* every resolution resolveAuthForRecipe can return
ResolvedAuths ==
  {resolveAuthForRecipe(o, cs, t, u, pw) :
     o \in OpenApiHints, cs \in BOOLEAN, t \in ArgTokens, u \in ArgUsernames, pw \in ArgPasswords}

RECURSIVE JoinHeaders(_)
JoinHeaders(hs) ==
  IF hs = <<>> THEN ""
  ELSE Head(hs).k \o ": " \o Text(redactSecret(Head(hs).v))
         \o (IF Len(hs) > 1 THEN "; " ELSE "") \o JoinHeaders(Tail(hs))

formatAuthHeaderHint(auth) ==
  IF auth.requestHeaders = <<>>
  THEN IF auth.status = "needs_user_input"
       THEN "Auth unresolved. " \o auth.nextAction
       ELSE "No auth headers required."
  ELSE JoinHeaders(auth.requestHeaders)

LineRequired ==
  "Line hint is required for strict line verification. Return report with status=line_key_required."

buildLineHitInstruction(lineHint, targetFile, inferredTargetKey) ==
  IF lineHint = NoHint THEN LineRequired
  ELSE LET breakpointHint ==
             IF targetFile # Undefined
             THEN "Set/confirm a JVM breakpoint at " \o targetFile \o ":" \o ToString(lineHint) \o "."
             ELSE "Set/confirm a JVM breakpoint at target line " \o ToString(lineHint) \o "."
       IN IF inferredTargetKey # Undefined
          THEN breakpointHint \o " Success criterion is line_hit via probe_status(key="
                 \o inferredTargetKey \o ":" \o ToString(lineHint)
                 \o ") with hitCount increased after the request."
          ELSE breakpointHint
                 \o " Line key could not be derived for strict line verification. Return report with status=line_key_required."

Step(phase, title, instruction) ==
  [phase |-> phase, title |-> title, instruction |-> instruction]

NotInferred == "(not inferred)"

ResolveAuthStep(auth) ==
  IF auth.status = "needs_user_input"
  THEN <<Step("prepare", "Resolve authentication", auth.nextAction)>>
  ELSE <<>>

AskActuatedConfirmation ==
  "Return REPORT with status=unreachable_natural and ask whether to proceed with explicit actuated mode."

naturalUnavailableSteps_NoReport(auth) ==
  ResolveAuthStep(auth) \o
  <<Step("prepare", "Natural path unavailable",
         "Controller/request mapping could not be inferred for this target. Natural reproduction is currently unreachable.")>>

\* natural mode, no request candidate
naturalUnavailableSteps(auth) ==
  ResolveAuthStep(auth) \o
  <<Step("prepare", "Natural path unavailable",
         "Controller/request mapping could not be inferred for this target. Natural reproduction is currently unreachable."),
    Step("verify", "Report limitation", AskActuatedConfirmation)>>

ResetBaselineStep(key, lineHint) ==
  Step("prepare", "Reset probe baseline",
       IF key = NotInferred
       THEN "Probe key was not inferred; skip reset and rely on application-side logs."
       ELSE IF lineHint # NoHint
            THEN "Call probe_reset with key=" \o key \o ":" \o ToString(lineHint)
                   \o " before sending the request."
            ELSE "Line hint is required for strict line verification; do not run probe reset/status with method-only key.")

ExecuteStep(request, auth) ==
  Step("execute", "Execute natural request",
       request.method \o " " \o request.fullUrlHint
         \o " (headers: " \o formatAuthHeaderHint(auth) \o ")"
         \o (IF request.bodyTemplate # Undefined THEN " body: " \o request.bodyTemplate ELSE ""))

VerifyStep(inferredTargetKey, targetFile, lineHint) ==
  Step("verify",
       IF lineHint # NoHint THEN "Verify line hit" ELSE "Line verification unavailable",
       buildLineHitInstruction(lineHint, targetFile, inferredTargetKey))

naturalRequestSteps_ExecuteFirst(inferredTargetKey, key, targetFile, lineHint, request, auth) ==
  ResolveAuthStep(auth) \o
  <<ExecuteStep(request, auth),
    ResetBaselineStep(key, lineHint),
    VerifyStep(inferredTargetKey, targetFile, lineHint)>>

\* natural mode with a request candidate
naturalRequestSteps(inferredTargetKey, key, targetFile, lineHint, request, auth) ==
  ResolveAuthStep(auth) \o
  <<ResetBaselineStep(key, lineHint),
    ExecuteStep(request, auth),
    VerifyStep(inferredTargetKey, targetFile, lineHint)>>

ArmInstruction(lineActuateKey) ==
  "Call probe_actuate with mode=actuate, targetKey=" \o lineActuateKey
    \o ", returnBoolean=true, actuatorId=recipe_generate_fallback to force branch-taken on conditional jumps at that line. Use returnBoolean=false to force fallthrough."

LineRequiredForActuation ==
  "Line hint is required for branch actuation. Return report with status=line_key_required."

DisarmInstruction(key, lineHint) ==
  IF lineHint # NoHint
  THEN "Call probe_actuate with mode=observe, targetKey=" \o key \o ":" \o ToString(lineHint)
         \o " to disarm override behavior."
  ELSE "Call probe_actuate with mode=observe to disarm override behavior."

RefineStep ==
  Step("prepare", "Refine target inference",
       "Actuation cannot be enabled because probe key was not inferred. Re-run recipe_generate with tighter classHint/methodHint/lineHint.")

ArmStep(key, lineHint) ==
  Step("prepare", "Enable actuation mode",
       IF lineHint # NoHint THEN ArmInstruction(key \o ":" \o ToString(lineHint))
                            ELSE LineRequiredForActuation)

TriggerStep(lineHint) ==
  Step("verify",
       IF lineHint # NoHint THEN "Verify line hit after trigger" ELSE "Line verification unavailable",
       IF lineHint # NoHint
       THEN "Invoke the closest reachable trigger path. Then require line_hit at line "
              \o ToString(lineHint) \o "; do not treat probe_hit alone as success."
       ELSE LineRequired)

actuatedStepsFor_NoRefine(key, lineHint) ==
  IF key = NotInferred
  THEN <<>>
  ELSE <<ArmStep(key, lineHint),
         TriggerStep(lineHint),
         Step("cleanup", "Cleanup actuation", DisarmInstruction(key, lineHint))>>

actuatedStepsFor_NoCleanup(key, lineHint) ==
  IF key = NotInferred
  THEN <<RefineStep>>
  ELSE <<ArmStep(key, lineHint), TriggerStep(lineHint)>>

\* actuated mode
actuatedStepsFor(key, lineHint) ==
  IF key = NotInferred
  THEN <<RefineStep>>
  ELSE <<ArmStep(key, lineHint),
         TriggerStep(lineHint),
         Step("cleanup", "Cleanup actuation", DisarmInstruction(key, lineHint))>>

defaultMode_Actuated(mode) == IF mode = Undefined THEN "actuated" ELSE mode

\* args.requestedMode ?? "natural" (and args.mode ?? "natural" in generateRecipe)
defaultMode(mode) == IF mode = Undefined THEN "natural" ELSE mode

MissingMappingReason ==
  "Natural HTTP reproduction path could not be inferred from controller/OpenAPI mapping."

MappingAvailableReason ==
  "Natural reproduction path is available from inferred controller/request mapping."

ExplicitActuationReason ==
  "Actuated mode was explicitly requested. This is non-natural execution and should be used only after natural mode is reported unreachable."

NoRequest == [present |-> FALSE, method |-> "", fullUrlHint |-> "", bodyTemplate |-> Undefined]

buildRecipeExecutionPlan(requestedModeArg, inferredTargetKey, targetFile, lineHint, request, auth) ==
  LET requestedMode == defaultMode(requestedModeArg)
      key == IF inferredTargetKey = Undefined THEN NotInferred ELSE inferredTargetKey
  IN IF requestedMode = "natural"
     THEN IF ~request.present
          THEN [mode |-> "natural",
                modeReason |-> MissingMappingReason,
                naturalSteps |-> naturalUnavailableSteps(auth),
                actuatedSteps |-> <<>>]
          ELSE [mode |-> "natural",
                modeReason |-> MappingAvailableReason,
                naturalSteps |-> naturalRequestSteps(inferredTargetKey, key, targetFile, lineHint, request, auth),
                actuatedSteps |-> <<>>]
     ELSE [mode |-> "actuated",
           modeReason |-> ExplicitActuationReason,
           naturalSteps |-> <<>>,
           actuatedSteps |-> actuatedStepsFor(key, lineHint)]

\* what inferTargets, findControllerRequestCandidate and resolveAuthForRecipe can hand
\* to generateRecipe
NoTop == [present |-> FALSE, key |-> Undefined, file |-> Undefined, line |-> NoHint]

Tops ==
  {NoTop,
   [present |-> TRUE, key |-> RecipeKey, file |-> RecipeFile, line |-> 9],
   [present |-> TRUE, key |-> Undefined, file |-> RecipeFile, line |-> NoHint]}

RequestGet ==
  [present |-> TRUE, method |-> "GET", fullUrlHint |-> "/catalog/items?keyword=value",
   bodyTemplate |-> Undefined]

RequestPatch ==
  [present |-> TRUE, method |-> "PATCH", fullUrlHint |-> "/user-accounts/settings",
   bodyTemplate |-> "{\"example\":\"value\"}"]

ControllerFile == "src/main/java/com/example/CatalogController.java"

ControllerMatches ==
  {[recipe |-> NoRequest, matchedControllerFile |-> Undefined, matchedBranchCondition |-> Undefined],
   [recipe |-> RequestGet, matchedControllerFile |-> ControllerFile, matchedBranchCondition |-> Undefined],
   [recipe |-> RequestGet, matchedControllerFile |-> ControllerFile,
    matchedBranchCondition |-> "if (keyword != null)"],
   [recipe |-> RequestPatch, matchedControllerFile |-> Undefined, matchedBranchCondition |-> Undefined]}

ArgModes == {Undefined, "natural", "actuated"}

recipeStatus_IgnoreAuth(requestedMode, bestRequest, auth, inferredTargetKey) ==
  IF requestedMode = "natural"
  THEN IF ~bestRequest.present THEN "unreachable_natural" ELSE "natural_ready"
  ELSE IF inferredTargetKey = Undefined THEN "actuated_blocked" ELSE "actuated_ready"

\* status of a result whose target was inferred
recipeStatus(requestedMode, bestRequest, auth, inferredTargetKey) ==
  IF requestedMode = "natural"
  THEN IF ~bestRequest.present THEN "unreachable_natural"
       ELSE IF auth.status = "needs_user_input" THEN "unreachable_natural"
       ELSE "natural_ready"
  ELSE IF inferredTargetKey = Undefined THEN "actuated_blocked" ELSE "actuated_ready"

recipeNextAction(requestedMode, bestRequest, auth, inferredTargetKey, authToken) ==
  IF requestedMode = "natural"
  THEN IF ~bestRequest.present
       THEN IF inferredTargetKey # Undefined
            THEN "Natural path is unreachable. If you want fallback, rerun recipe_generate with mode=actuated using key="
                   \o inferredTargetKey \o "."
            ELSE "Natural path is unreachable. If you want fallback, rerun recipe_generate with mode=actuated after refining target inference."
       ELSE IF auth.status = "needs_user_input"
            THEN IF authToken # Null /\ authToken # <<>>
                 THEN "Provide complete auth credentials required by the inferred endpoint, then rerun natural mode."
                 ELSE "Provide authToken (and login credentials if required), then rerun natural mode."
            ELSE Undefined
  ELSE IF inferredTargetKey = Undefined
       THEN "Actuated mode requires an inferred targetKey. Refine classHint/methodHint/lineHint and rerun."
       ELSE Undefined

NoAutoSwitchNote ==
  "Natural mode does not auto-switch to actuated mode. Actuation requires explicit second prompt."

recipeNotes(requestedMode, bestRequest, lineHint, topLine, matchedBranchCondition) ==
  (IF bestRequest.present THEN <<>>
   ELSE <<"No controller call mapping found in the selected module roots; use inferred key with manual endpoint discovery.">>)
  \o (IF lineHint # NoHint
      THEN <<"Success criterion is line_hit when lineHint is provided.",
             "Use line probe key Class#method:line for line_hit verification.">>
           \o (IF topLine # NoHint /\ topLine # lineHint
               THEN <<"Provided line hint (" \o ToString(lineHint)
                        \o ") differs from inferred method start (" \o ToString(topLine) \o ").">>
               ELSE <<>>)
      ELSE <<"Strict line mode: lineHint is required; method-only probe checks are disabled.">>)
  \o (IF matchedBranchCondition # Undefined
      THEN <<"Line/branch precondition hint: " \o matchedBranchCondition>>
      ELSE <<>>)
  \o (IF requestedMode = "natural" THEN <<NoAutoSwitchNote>> ELSE <<>>)
  \o (IF requestedMode = "actuated"
      THEN <<"Actuation targets line-level branch behavior only (Class#method:line) and does not imply natural-path reachability.">>
      ELSE <<>>)

generateRecipeResult(args, top, match, env) ==
  LET requestedMode == defaultMode(args.mode)
  IN IF ~top.present
     THEN [inferredTarget |-> Undefined,
           requestCandidates |-> <<>>,
           executionPlan |-> buildRecipeExecutionPlan(requestedMode, Undefined, Undefined,
                                                      args.lineHint, NoRequest, UnresolvedAuth),
           resultType |-> "report",
           status |-> "target_not_inferred",
           nextAction |-> "Refine classHint/methodHint/lineHint and rerun recipe_generate before attempting natural or actuated execution.",
           auth |-> UnresolvedAuth,
           notes |-> <<"No matching method candidate inferred from current hints.">>]
     ELSE LET bestRequest == match.recipe
              auth == IF bestRequest.present \/ match.matchedControllerFile # Undefined
                      THEN resolveAuthForRecipe(
                             env.openapi,
                             match.matchedControllerFile # Undefined /\ env.controllerSecure,
                             args.authToken, args.authUsername, args.authPassword)
                      ELSE NoEntrypointAuth
              status == recipeStatus(requestedMode, bestRequest, auth, top.key)
          IN [inferredTarget |-> [key |-> top.key, file |-> top.file, line |-> top.line],
              requestCandidates |-> IF bestRequest.present THEN <<bestRequest>> ELSE <<>>,
              executionPlan |-> buildRecipeExecutionPlan(requestedMode, top.key, top.file,
                                                         args.lineHint, bestRequest, auth),
              resultType |-> IF status \in {"natural_ready", "actuated_ready"}
                             THEN "recipe" ELSE "report",
              status |-> status,
              nextAction |-> recipeNextAction(requestedMode, bestRequest, auth, top.key,
                                              args.authToken),
              auth |-> auth,
              notes |-> recipeNotes(requestedMode, bestRequest, args.lineHint, top.line,
                                    match.matchedBranchCondition)]

NoPlan == [mode |-> "", modeReason |-> "", naturalSteps |-> <<>>, actuatedSteps |-> <<>>]

NoRecipeResult ==
  [inferredTarget |-> Undefined, requestCandidates |-> <<>>, executionPlan |-> NoPlan,
   resultType |-> "", status |-> "", nextAction |-> Undefined, auth |-> UnresolvedAuth,
   notes |-> <<>>]

\* what the controller source gives buildRecipeCandidate for one call site: the mapping
\* on the enclosing method, the mapping on an implemented interface's method, the
\* class-level base path, how the call's argument is bound, and the OpenAPI path that
\* names the request parameter
NoMapping == [present |-> FALSE, method |-> "", path |-> ""]

MethodMappings ==
  {NoMapping,
   [present |-> TRUE, method |-> "GET", path |-> "/catalog/items"],
   [present |-> TRUE, method |-> "PUT", path |-> "/catalog/{keyword}"]}

InterfaceMappings ==
  {NoMapping, [present |-> TRUE, method |-> "PATCH", path |-> "/settings"]}

ClassBasePaths == {"/", "/catalog"}

ParamSources == {"none", "query", "path", "body", "legacy"}

OpenApiPaths == {Undefined, "/api/items"}

NoCallSite ==
  [mapping |-> NoMapping, iface |-> NoMapping, classBase |-> "/", param |-> "none",
   openapiPath |-> Undefined]

\* pathHint.replace(/\{keyword\}/g, sampleValueForType("String")) on the paths above
replacePathParam(path) == IF path = "/catalog/{keyword}" THEN "/catalog/value" ELSE path

\* Boolean(endpointMapping) || Boolean(openapiPath)
routeResolved(endpointMapping, openapiPath) ==
  endpointMapping.present \/ openapiPath # Undefined

\* recipe_candidate_infer buildRecipeCandidate for a call argument named keyword of
\* type String
buildRecipeCandidate(c) ==
  LET endpointMapping == IF c.mapping.present THEN c.mapping ELSE c.iface
      endpoint == IF endpointMapping.present THEN endpointMapping.path ELSE c.classBase
      requestParamName == IF c.param \in {"query", "legacy"} THEN "keyword" ELSE Undefined
      queryParts == IF requestParamName # Undefined /\ c.param # "body"
                    THEN <<requestParamName \o "=value">> ELSE <<>>
      pathHint0 == IF c.param = "path" THEN replacePathParam(endpoint) ELSE endpoint
      openapiPath == IF requestParamName # Undefined THEN c.openapiPath ELSE Undefined
      pathHint == IF ~endpointMapping.present /\ openapiPath # Undefined
                  THEN openapiPath ELSE pathHint0
      method == IF endpointMapping.present THEN endpointMapping.method ELSE "GET"
  IN IF ~routeResolved(endpointMapping, openapiPath) /\ pathHint = "/"
     THEN NoRequest
     ELSE [present |-> TRUE,
           method |-> method,
           fullUrlHint |-> IF queryParts # <<>> THEN pathHint \o "?" \o queryParts[1]
                                               ELSE pathHint,
           bodyTemplate |-> IF c.param = "body" THEN "\"value\"" ELSE Undefined]

\* what the recipe_generate handler hands back before it has run
NoResponse == [text |-> [kind |-> "", rendered |-> Undefined, json |-> Undefined],
               structuredContent |-> Undefined]

RecipeIdle ==
  [pc |-> "idle", fn |-> "", ctl |-> NoCallSite,
   args |-> [mode |-> Undefined, lineHint |-> NoHint, authToken |-> Null,
             authUsername |-> Null, authPassword |-> Null],
   top |-> NoTop,
   match |-> [recipe |-> NoRequest, matchedControllerFile |-> Undefined,
              matchedBranchCondition |-> Undefined],
   env |-> [openapi |-> [required |-> FALSE, strategy |-> "unknown"],
            controllerSecure |-> FALSE],
   auth |-> UnresolvedAuth,
   out |-> NoRecipeResult,
   response |-> NoResponse]

\* the recipe_generate tool: one call of generateRecipe
generateRecipe ==
  /\ recipe.pc = "called"
  /\ recipe.fn = "generateRecipe"
  /\ recipe' = [recipe EXCEPT !.pc = "done",
                              !.out = generateRecipeResult(recipe.args, recipe.top,
                                                           recipe.match, recipe.env)]
  /\ UNCHANGED <<hitVars, srv, net, cfgVars, LAST_RESET_EPOCH_BY_KEY, wait, rst, stat, hist, infer, act, search, agent>>

\* one call of buildRecipeExecutionPlan with arguments of its own
BuildPlan ==
  /\ recipe.pc = "called"
  /\ recipe.fn = "buildRecipeExecutionPlan"
  /\ recipe' = [recipe EXCEPT
                  !.pc = "done",
                  !.out.executionPlan =
                     buildRecipeExecutionPlan(recipe.args.mode, recipe.top.key, recipe.top.file,
                                              recipe.args.lineHint, recipe.match.recipe,
                                              recipe.auth)]
  /\ UNCHANGED <<hitVars, srv, net, cfgVars, LAST_RESET_EPOCH_BY_KEY, wait, rst, stat, hist, infer, act, search, agent>>

\* one call of buildRecipeCandidate for a call site found in a controller
BuildCandidate ==
  /\ recipe.pc = "called"
  /\ recipe.fn = "buildRecipeCandidate"
  /\ recipe' = [recipe EXCEPT
                  !.pc = "done",
                  !.out.requestCandidates =
                     LET built == buildRecipeCandidate(recipe.ctl)
                     IN IF built.present THEN <<built>> ELSE <<>>]
  /\ UNCHANGED <<hitVars, srv, net, cfgVars, LAST_RESET_EPOCH_BY_KEY, wait, rst, stat, hist, infer, act, search, agent>>

\* output templates a caller can pass: none or empty, a blank one, one naming tokens.
\* A template is its literal pieces and its {{token}} pieces in order.
Literal(text) == [token |-> FALSE, s |-> text]
Token(key) == [token |-> TRUE, s |-> key]
OutputTemplates ==
  {<<>>,
   <<Literal(" ")>>,
   <<Literal("auth "), Token("auth.headers"), Token("AUTH"), Token("nope")>>}

\* typeof outputTemplate === "string" && outputTemplate.trim().length > 0
hasExplicitTemplate(template) ==
  \E i \in 1..Len(template) : template[i].token \/ template[i].s \notin {"", " "}

\* recipe_template_model: the entries of the template model that name auth
buildRecipeTemplateModel(generated) ==
  [k \in {"auth.status", "auth.strategy", "auth.headers"} |->
     CASE k = "auth.status" -> generated.auth.status
       [] k = "auth.strategy" -> generated.auth.strategy
       [] k = "auth.headers" -> IF generated.auth.requestHeaders = <<>>
                                THEN "Not provided"
                                ELSE JoinHeaders(generated.auth.requestHeaders)]

LegacyAlias == [k \in {"auth"} |-> "auth.status"]

\* the token keys used here, lower-cased
lowerKey(key) == IF key = "AUTH" THEN "auth" ELSE key

resolveToken(model, token) ==
  IF token \in DOMAIN model THEN model[token]
  ELSE IF lowerKey(token) \in DOMAIN model THEN model[lowerKey(token)]
  ELSE IF lowerKey(token) \in DOMAIN LegacyAlias
          /\ LegacyAlias[lowerKey(token)] \in DOMAIN model
       THEN model[LegacyAlias[lowerKey(token)]]
  ELSE Undefined

RECURSIVE renderRecipeTemplate(_, _)
renderRecipeTemplate(template, model) ==
  IF template = <<>> THEN ""
  ELSE LET part == Head(template)
           resolved == resolveToken(model, part.s)
       IN (IF ~part.token THEN part.s
           ELSE IF resolved # Undefined THEN resolved
           ELSE "{{" \o part.s \o "}}")
          \o renderRecipeTemplate(Tail(template), model)

\* the response of the recipe_generate tool for what generateRecipe returned; the
\* text content is the rendered template or else the JSON document of internalContent
recipeGenerateResponse(generated, outputTemplate) ==
  LET rendered == IF hasExplicitTemplate(outputTemplate)
                  THEN renderRecipeTemplate(outputTemplate,
                                            buildRecipeTemplateModel(generated))
                  ELSE Undefined
      internalContent ==
        [resultType |-> generated.resultType, status |-> generated.status,
         nextAction |-> generated.nextAction,
         mode |-> generated.executionPlan.mode,
         modeReason |-> generated.executionPlan.modeReason,
         inferredTarget |-> generated.inferredTarget,
         requestCandidates |-> generated.requestCandidates,
         executionPlan |-> generated.executionPlan,
         auth |-> generated.auth, notes |-> generated.notes]
  IN [text |-> IF rendered # Undefined
               THEN [kind |-> "rendered", rendered |-> rendered, json |-> Undefined]
               ELSE [kind |-> "json", rendered |-> Undefined, json |-> internalContent],
      structuredContent |->
        [inferredTarget |-> generated.inferredTarget,
         requestCandidates |-> generated.requestCandidates,
         executionPlan |-> generated.executionPlan,
         resultType |-> generated.resultType, status |-> generated.status,
         nextAction |-> generated.nextAction,
         auth |-> generated.auth, notes |-> generated.notes,
         rendered |-> rendered]]

\* the recipe_generate handler after generateRecipe has returned: it builds the
\* template model, renders the template if one was passed, and answers
RecipeGenerateTool ==
  /\ recipe.pc = "done"
  /\ recipe.fn = "generateRecipe"
  /\ \E outputTemplate \in OutputTemplates :
       recipe' = [recipe EXCEPT !.pc = "returned",
                                !.response = recipeGenerateResponse(recipe.out, outputTemplate)]
  /\ UNCHANGED <<hitVars, srv, net, cfgVars, LAST_RESET_EPOCH_BY_KEY, wait, rst, stat,
                 infer, act, search, agent, hist>>

----------------------------------------------------------------------------
(* Planner: target inference (target_infer) *)

\* String.prototype.includes: sub occurs in s as a contiguous run
includes(s, sub) ==
  \E i \in 1..(Len(s) - Len(sub) + 1) : SubSeq(s, i, i + Len(sub) - 1) = sub

endsWith(s, suffix) ==
  /\ Len(s) >= Len(suffix)
  /\ SubSeq(s, Len(s) - Len(suffix) + 1, Len(s)) = suffix

\* path.basename(p, ext): the part after the last separator, without ext
basename(p, ext) ==
  LET cut == IF \E i \in 1..Len(p) : p[i] = "/"
             THEN CHOOSE i \in 1..Len(p) :
                    p[i] = "/" /\ \A j \in (i + 1)..Len(p) : p[j] # "/"
             ELSE 0
      base == SubSeq(p, cut + 1, Len(p))
  IN IF endsWith(base, ext) /\ Len(base) > Len(ext)
     THEN SubSeq(base, 1, Len(base) - Len(ext))
     ELSE base

DotJava == <<".", "j", "a", "v", "a">>

normalize(s) == IF s = Null THEN <<>> ELSE toLowerCase(trim(s))

abs(n) == IF n < 0 THEN 0 - n ELSE n

min(a, b) == IF a <= b THEN a ELSE b

max(a, b) == IF a >= b THEN a ELSE b

classScore(classHint, className, fileBase) ==
  IF classHint = <<>> THEN 0
  ELSE IF className = classHint THEN 45
  ELSE IF includes(className, classHint) \/ includes(fileBase, classHint) THEN 25
  ELSE 0

methodScore(methodHint, methodName) ==
  IF methodHint = <<>> THEN 0
  ELSE IF methodName = methodHint THEN 40
  ELSE IF includes(methodName, methodHint) THEN 22
  ELSE 0

lineScore(lineHint, methodLine) ==
  IF lineHint = Absent \/ methodLine = Absent THEN 0
  ELSE LET d == abs(lineHint - methodLine)
       IN IF d = 0 THEN 25
          ELSE IF d <= 3 THEN 16
          ELSE IF d <= 12 THEN 8
          ELSE 0

classReasons(score) ==
  IF score = 45 THEN <<"class exact match">>
  ELSE IF score = 25 THEN <<"class partial match">>
  ELSE <<>>

methodReasons(score) ==
  IF score = 40 THEN <<"method exact match">>
  ELSE IF score = 22 THEN <<"method partial match">>
  ELSE <<>>

lineReasons(score) ==
  IF score = 25 THEN <<"line exact match">>
  ELSE IF score = 16 THEN <<"line near match">>
  ELSE IF score = 8 THEN <<"line loose match">>
  ELSE <<>>

\* scoreCandidate without the guardrail against line-only matches
scoreCandidate_LineOnly(a) ==
  LET cs == classScore(normalize(a.classHint), normalize(a.className),
                       toLowerCase(basename(a.filePath, DotJava)))
      ms == methodScore(normalize(a.methodHint), normalize(a.methodName))
      ls == lineScore(a.lineHint, a.methodLine)
  IN [score |-> cs + ms + ls,
      reasons |-> classReasons(cs) \o methodReasons(ms) \o lineReasons(ls)]

\* scoreCandidate with the line distance bands shifted by one
scoreCandidate_WideLine(a) ==
  LET classHint == normalize(a.classHint)
      methodHint == normalize(a.methodHint)
      cs == classScore(classHint, normalize(a.className),
                       toLowerCase(basename(a.filePath, DotJava)))
      ms == methodScore(methodHint, normalize(a.methodName))
      ls == lineScore(IF a.lineHint = Absent THEN Absent ELSE a.lineHint + 1,
                      a.methodLine)
  IN IF (classHint # <<>> \/ methodHint # <<>>) /\ cs = 0 /\ ms = 0
     THEN [score |-> 0, reasons |-> <<>>]
     ELSE [score |-> cs + ms + ls,
           reasons |-> classReasons(cs) \o methodReasons(ms) \o lineReasons(ls)]

scoreCandidate(a) ==
  LET classHint == normalize(a.classHint)
      methodHint == normalize(a.methodHint)
      fileBase == toLowerCase(basename(a.filePath, DotJava))
      className == normalize(a.className)
      methodName == normalize(a.methodName)
      cs == classScore(classHint, className, fileBase)
      ms == methodScore(methodHint, methodName)
      ls == lineScore(a.lineHint, a.methodLine)
  IN IF (classHint # <<>> \/ methodHint # <<>>) /\ cs = 0 /\ ms = 0
     THEN [score |-> 0, reasons |-> <<>>]
     ELSE [score |-> cs + ms + ls,
           reasons |-> classReasons(cs) \o methodReasons(ms) \o lineReasons(ls)]

\* a JavaScript truthiness test of an optional string
truthy(s) == s # Null /\ s # <<>>

\* the score of method m of file f and the candidate inferTargets builds from it
targetCandidate(f, m, args) ==
  LET scored == scoreCandidate(
                  [filePath |-> f.fileAbs, methodName |-> m.name, methodLine |-> m.line,
                   classHint |-> IF truthy(args.classHint) THEN args.classHint ELSE Null,
                   methodHint |-> IF truthy(args.methodHint) THEN args.methodHint ELSE Null,
                   lineHint |-> args.lineHint,
                   className |-> IF truthy(f.className) THEN f.className ELSE Null])
      hasFqcn == truthy(f.packageName) /\ truthy(f.className)
      fqcn == IF hasFqcn THEN f.packageName \o <<".">> \o f.className ELSE Null
  IN [score |-> scored.score,
      candidate |->
        [file |-> f.fileAbs, methodName |-> m.name, className |-> f.className,
         line |-> m.line, confidence |-> min(100, scored.score),
         reasons |-> scored.reasons, fqcn |-> fqcn,
         key |-> IF hasFqcn THEN fqcn \o <<"#">> \o m.name ELSE Null]]

RECURSIVE methodCandidates(_, _, _)
methodCandidates(f, ms, args) ==
  IF ms = <<>> THEN <<>>
  ELSE LET c == targetCandidate(f, Head(ms), args)
       IN (IF c.score <= 0 THEN <<>> ELSE <<c.candidate>>) \o methodCandidates(f, Tail(ms), args)

RECURSIVE indexCandidates(_, _)
indexCandidates(index, args) ==
  IF index = <<>> THEN <<>>
  ELSE methodCandidates(Head(index), Head(index).methods, args)
         \o indexCandidates(Tail(index), args)

\* the comparator of the final sort: a sorts before b
sortsBefore(a, b) ==
  IF b.confidence # a.confidence THEN b.confidence < a.confidence
  ELSE a.line < b.line

RECURSIVE insertSorted(_, _)
insertSorted(c, sorted) ==
  IF sorted = <<>> THEN <<c>>
  ELSE IF sortsBefore(c, Head(sorted)) THEN <<c>> \o sorted
  ELSE <<Head(sorted)>> \o insertSorted(c, Tail(sorted))

\* Array.prototype.sort is stable: equal elements keep their order
RECURSIVE sort(_)
sort(out) ==
  IF out = <<>> THEN <<>>
  ELSE LET n == Len(out)
       IN insertSorted(out[n], sort(SubSeq(out, 1, n - 1)))

DefaultMaxCandidates == 8
MaxCandidatesCap == 20

inferTargets(index, args) ==
  LET out == sort(indexCandidates(index, args))
      limit == max(1, min(IF args.maxCandidates = Absent THEN DefaultMaxCandidates
                          ELSE args.maxCandidates, MaxCandidatesCap))
  IN [scannedJavaFiles |-> Len(index),
      candidates |-> SubSeq(out, 1, min(limit, Len(out)))]

InferIdle == [pc |-> "idle", args |-> <<>>, index |-> <<>>, out |-> <<>>]

\* the indexed source tree
FileAb ==
  [fileAbs |-> <<"/", "s", "/", "A", "b", ".", "j", "a", "v", "a">>,
   className |-> <<"A", "b">>, packageName |-> <<"p">>,
   methods |-> <<[name |-> <<"m", "N">>, line |-> 10], [name |-> <<"k">>, line |-> 30]>>]
FileXab ==
  [fileAbs |-> <<"/", "s", "/", "x", "A", "b", ".", "j", "a", "v", "a">>,
   className |-> Null, packageName |-> Null,
   methods |-> <<[name |-> <<"m", "N", "x">>, line |-> 10]>>]
FileCd ==
  [fileAbs |-> <<"/", "C", "d", ".", "j", "a", "v", "a">>,
   className |-> <<"C", "d">>, packageName |-> Null,
   methods |-> <<[name |-> <<"q">>, line |-> 10]>>]
FileEmpty ==
  [fileAbs |-> <<"/", "E", ".", "j", "a", "v", "a">>,
   className |-> <<"E">>, packageName |-> <<"p">>, methods |-> <<>>]

JavaFiles == {FileAb, FileXab, FileCd, FileEmpty}

Indexes ==
  {<<f>> : f \in JavaFiles}
    \cup {p \in {<<f, g>> : f \in JavaFiles, g \in JavaFiles} : p[1] # p[2]}
    \cup {<<FileAb, FileXab, FileCd>>}

ClassHints == {Null, <<" ">>, <<"A", "B">>, <<"b">>, <<"x", "a">>, <<"z">>}
MethodHints == {Null, <<" ", "M", "n">>, <<"k">>, <<"z">>}
LineHints == {Absent, 10, 12, 20, 40}
MaxCandidateArgs == {Absent, 0, 1, 25}

InferCalls ==
  {[pc |-> "called",
    args |-> [classHint |-> ch, methodHint |-> mh, lineHint |-> lh, maxCandidates |-> mc],
    index |-> ix, out |-> <<>>] :
     ch \in ClassHints, mh \in MethodHints, lh \in LineHints,
     mc \in MaxCandidateArgs, ix \in Indexes}

\* one call of inferTargets over the indexed tree
InferTargets ==
  /\ infer.pc = "called"
  /\ infer' = [infer EXCEPT !.pc = "done", !.out = inferTargets(infer.index, infer.args)]
  /\ UNCHANGED <<hitVars, srv, net, cfgVars, LAST_RESET_EPOCH_BY_KEY, wait, rst, stat,
                 recipe, act, search, agent, hist>>

----------------------------------------------------------------------------
(* Agent start-up *)

\* String.split on a one-character separator
RECURSIVE split(_, _)
split(s, sep) ==
  IF \A i \in 1..Len(s) : s[i] # sep THEN <<s>>
  ELSE LET i == CHOOSE k \in 1..Len(s) : s[k] = sep /\ \A j \in 1..(k - 1) : s[j] # sep
       IN <<SubSeq(s, 1, i - 1)>> \o split(SubSeq(s, i + 1, Len(s)), sep)

\* String.indexOf(ch), zero-based, -1 when absent
indexOf(s, ch) ==
  IF \A i \in 1..Len(s) : s[i] # ch THEN -1
  ELSE (CHOOSE k \in 1..Len(s) : s[k] = ch /\ \A j \in 1..(k - 1) : s[j] # ch) - 1

startsWith(s, prefix) ==
  /\ Len(prefix) <= Len(s)
  /\ SubSeq(s, 1, Len(prefix)) = prefix

RECURSIVE join(_, _)
join(parts, sep) ==
  IF Len(parts) = 0 THEN <<>>
  ELSE IF Len(parts) = 1 THEN parts[1]
  ELSE parts[1] \o sep \o join(Tail(parts), sep)

parseBoolean(raw, defaultValue) ==
  IF raw = Null THEN defaultValue
  ELSE LET v == toLowerCase(trim(raw))
       IN IF v \in {<<"t", "r", "u", "e">>, <<"1">>, <<"y", "e", "s">>, <<"y">>} THEN TRUE
          ELSE IF v \in {<<"f", "a", "l", "s", "e">>, <<"0">>, <<"n", "o">>, <<"n">>} THEN FALSE
          ELSE defaultValue

parseCsv(raw) ==
  IF raw = Null \/ isBlank(raw) THEN <<>>
  ELSE LET parts == split(raw, ",")
           trimmed == [i \in 1..Len(parts) |-> trim(parts[i])]
       IN SelectSeq(trimmed, LAMBDA t : ~isEmpty(t))

\* the settings one source (agent args, environment, system properties) supplies, Null
\* where it supplies none
NoSettings == [mode |-> Null, actuatorId |-> Null, actuateTarget |-> Null,
               actuateReturnBoolean |-> Null, include |-> Null, exclude |-> Null]

supplied(raw) == raw # Null /\ ~isBlank(raw)

DefaultExclude == <<"c", "o", "m", ".", "n", "i", "m", "b", "l", "y", ".", "m", "c", "p", "j", "v", "m", "d", "e", "b", "u", "g", "g", "e", "r", ".", "a", "g", "e", "n", "t", ".", "*", "*">>

\* readDefaultMode, readDefaultActuatorId, readDefaultActuateTargetKey,
\* readDefaultActuateReturnBoolean, readDefaultInclude and readDefaultExclude; inferred
\* is what inferIncludeFromStartup derives from the launch command
readDefaults(props, env, inferred) ==
  [mode |-> IF supplied(props.mode) THEN normalizeMode(props.mode)
            ELSE IF supplied(env.mode) THEN normalizeMode(env.mode)
            ELSE Observe,
   actuatorId |-> IF supplied(props.actuatorId) THEN normalizeActuatorId(props.actuatorId)
                  ELSE IF supplied(env.actuatorId) THEN normalizeActuatorId(env.actuatorId)
                  ELSE <<>>,
   actuateTargetKey |->
     IF supplied(props.actuateTarget) THEN normalizeTargetKey(props.actuateTarget)
     ELSE IF supplied(env.actuateTarget) THEN normalizeTargetKey(env.actuateTarget)
     ELSE <<>>,
   actuateReturnBoolean |->
     IF supplied(props.actuateReturnBoolean) THEN parseBoolean(props.actuateReturnBoolean, FALSE)
     ELSE IF supplied(env.actuateReturnBoolean) THEN parseBoolean(env.actuateReturnBoolean, FALSE)
     ELSE FALSE,
   includePatterns |-> parseCsv(IF supplied(props.include) THEN props.include
                                ELSE IF supplied(env.include) THEN env.include
                                ELSE IF inferred # Null /\ ~isBlank(inferred) THEN inferred
                                ELSE <<>>),
   excludePatterns |-> parseCsv(IF supplied(props.exclude) THEN props.exclude
                                ELSE IF supplied(env.exclude) THEN env.exclude
                                ELSE DefaultExclude)]

\* the agent-argument keys, compared with equalsIgnoreCase
ModeArgKeys ==
  {<<"m", "o", "d", "e">>,
   <<"p", "r", "o", "b", "e", "m", "o", "d", "e">>}

ActuatorIdArgKeys ==
  {<<"a", "c", "t", "u", "a", "t", "o", "r", "i", "d">>,
   <<"a", "c", "t", "u", "a", "t", "o", "r">>}

ActuateTargetArgKeys ==
  {<<"a", "c", "t", "u", "a", "t", "e", "t", "a", "r", "g", "e", "t">>,
   <<"a", "c", "t", "u", "a", "t", "e", "t", "a", "r", "g", "e", "t", "k", "e", "y">>,
   <<"t", "a", "r", "g", "e", "t", "k", "e", "y">>}

ActuateReturnBooleanArgKeys ==
  {<<"a", "c", "t", "u", "a", "t", "e", "r", "e", "t", "u", "r", "n", "b", "o", "o", "l">>,
   <<"a", "c", "t", "u", "a", "t", "e", "r", "e", "t", "u", "r", "n", "b", "o", "o", "l", "e", "a", "n">>,
   <<"r", "e", "t", "u", "r", "n", "b", "o", "o", "l", "e", "a", "n">>}

IncludeArgKeys ==
  {<<"i", "n", "c", "l", "u", "d", "e">>,
   <<"i", "n", "c", "l", "u", "d", "e", "s">>,
   <<"i", "n", "c", "l", "u", "d", "e", "p", "a", "c", "k", "a", "g", "e", "s">>}

ExcludeArgKeys ==
  {<<"e", "x", "c", "l", "u", "d", "e">>,
   <<"e", "x", "c", "l", "u", "d", "e", "s">>,
   <<"e", "x", "c", "l", "u", "d", "e", "p", "a", "c", "k", "a", "g", "e", "s">>}

\* one key=value part of the agent-argument string applied to the settings so far
applyAgentArg(acc, p) ==
  LET t == trim(p)
      eq == indexOf(t, "=")
  IN IF isEmpty(t) \/ eq <= 0 \/ eq = Len(t) - 1 THEN acc
     ELSE LET k == toLowerCase(trim(SubSeq(t, 1, eq)))
              v == trim(SubSeq(t, eq + 2, Len(t)))
          IN IF k \in ModeArgKeys THEN [acc EXCEPT !.mode = normalizeMode(v)]
             ELSE IF k \in ActuatorIdArgKeys
               THEN [acc EXCEPT !.actuatorId = normalizeActuatorId(v)]
             ELSE IF k \in ActuateTargetArgKeys
               THEN [acc EXCEPT !.actuateTargetKey = normalizeTargetKey(v)]
             ELSE IF k \in ActuateReturnBooleanArgKeys
               THEN [acc EXCEPT !.actuateReturnBoolean = parseBoolean(v, FALSE)]
             ELSE IF k \in IncludeArgKeys THEN [acc EXCEPT !.includePatterns = parseCsv(v)]
             ELSE IF k \in ExcludeArgKeys THEN [acc EXCEPT !.excludePatterns = parseCsv(v)]
             ELSE acc

RECURSIVE applyAgentArgs(_, _)
applyAgentArgs(acc, parts) ==
  IF Len(parts) = 0 THEN acc
  ELSE applyAgentArgs(applyAgentArg(acc, Head(parts)), Tail(parts))

\* AgentConfig.fromAgentArgs, the loop: each key=value part of args in order over the
\* defaults read from the system properties and the environment
parseAgentArgs(args, defaults) ==
  IF args = Null \/ isBlank(args) THEN defaults
  ELSE applyAgentArgs(defaults, split(args, ";"))

\* AgentConfig.fromAgentArgs, the end: the normalisation and the configuration returned
agentConfig(parsed) ==
  LET normal == fromAgentArgs(parsed.mode, parsed.actuatorId, parsed.actuateTargetKey,
                              parsed.actuateReturnBoolean)
  IN [mode |-> normal.mode, actuatorId |-> normal.actuatorId,
      actuateTargetKey |-> normal.targetKey,
      actuateReturnBoolean |-> normal.returnBoolean,
      includePatterns |-> parsed.includePatterns,
      excludePatterns |-> parsed.excludePatterns]

RegexEscaped == {"\\", ".", "[", "]", "{", "}", "(", ")", "+", "-", "^", "$", "|", "?"}

\* toRegex, the loop over the characters of the glob from index i on
RECURSIVE globToRegex(_, _)
globToRegex(g, i) ==
  IF i > Len(g) THEN <<>>
  ELSE IF g[i] = "*"
    THEN IF i + 1 <= Len(g) /\ g[i + 1] = "*"
         THEN <<".", "*">> \o globToRegex(g, i + 2)
         ELSE <<"[", "^", ".", "]", "*">> \o globToRegex(g, i + 1)
    ELSE (IF g[i] \in RegexEscaped THEN <<"\\">> ELSE <<>>) \o <<g[i]>>
           \o globToRegex(g, i + 1)

\* a wildcard-free pattern extended with ** and no segment separator
toRegex_NoSeparator(globOrPrefix) ==
  LET hasWildcard == indexOf(globOrPrefix, "*") >= 0
      g == IF hasWildcard THEN globOrPrefix ELSE globOrPrefix \o <<"*", "*">>
  IN <<"^">> \o globToRegex(g, 1) \o <<"$">>

\* AgentConfig.toRegex: the regular expression compiled for one include/exclude pattern
toRegex(globOrPrefix) ==
  LET hasWildcard == indexOf(globOrPrefix, "*") >= 0
      g == IF hasWildcard THEN globOrPrefix
           ELSE IF globOrPrefix[Len(globOrPrefix)] = "."
             THEN globOrPrefix \o <<"*", "*">>
             ELSE globOrPrefix \o <<".", "*", "*">>
  IN <<"^">> \o globToRegex(g, 1) \o <<"$">>

\* java.util.regex on the expressions toRegex produces: an escaped character, .* ,
\* [^.]* , a dot, or a plain character; rx from index i (up to its closing $) is matched
\* against the whole of s from index j
RECURSIVE regexMatchesHere(_, _, _, _)
regexMatchesHere(rx, i, s, j) ==
  IF i >= Len(rx) THEN j > Len(s)
  ELSE IF rx[i] = "\\"
    THEN j <= Len(s) /\ s[j] = rx[i + 1] /\ regexMatchesHere(rx, i + 2, s, j + 1)
  ELSE IF i + 1 < Len(rx) /\ rx[i] = "." /\ rx[i + 1] = "*"
    THEN \E k \in j..(Len(s) + 1) : regexMatchesHere(rx, i + 2, s, k)
  ELSE IF i + 4 < Len(rx) /\ SubSeq(rx, i, i + 4) = <<"[", "^", ".", "]", "*">>
    THEN \E k \in j..(Len(s) + 1) :
           /\ \A n \in j..(k - 1) : s[n] # "."
           /\ regexMatchesHere(rx, i + 5, s, k)
  ELSE IF rx[i] = "."
    THEN j <= Len(s) /\ regexMatchesHere(rx, i + 1, s, j + 1)
  ELSE j <= Len(s) /\ s[j] = rx[i] /\ regexMatchesHere(rx, i + 1, s, j + 1)

\* Pattern.compile(rx).matcher(value).matches()
regexMatches(rx, value) == regexMatchesHere(rx, 2, value, 1)

\* compilePatterns then matchesAny
matchesAny(patterns, value) ==
  \E i \in 1..Len(patterns) :
    /\ ~isEmpty(trim(patterns[i]))
    /\ \E rx \in {toRegex(trim(patterns[i]))} : regexMatches(rx, value)

shouldInstrument(cfg, dottedClassName) ==
  IF dottedClassName = Null \/ isEmpty(dottedClassName) THEN FALSE
  ELSE IF ~matchesAny(cfg.includePatterns, dottedClassName) THEN FALSE
  ELSE ~matchesAny(cfg.excludePatterns, dottedClassName)

\* the prefixes installInstrumentation tells the agent builder to ignore
IgnoredPrefixes ==
  {<<"n", "e", "t", ".", "b", "y", "t", "e", "b", "u", "d", "d", "y", ".">>,
   <<"j", "a", "v", "a", ".">>,
   <<"j", "a", "v", "a", "x", ".">>,
   <<"j", "a", "k", "a", "r", "t", "a", ".">>,
   <<"s", "u", "n", ".">>,
   <<"j", "d", "k", ".">>,
   <<"c", "o", "m", ".", "s", "u", "n", ".">>,
   <<"o", "r", "g", ".", "s", "p", "r", "i", "n", "g", "f", "r", "a", "m", "e", "w", "o", "r", "k", ".", "b", "o", "o", "t", ".", "l", "o", "a", "d", "e", "r", ".">>}

ignored(typeName) == \E p \in IgnoredPrefixes : startsWith(typeName, p)

\* what a launch supplies: the agent-argument string and, kept beside it, the settings
\* the three sources give
AgentSources == {"args", "env", "props"}

GivenIds == [args |-> <<"a">>, env |-> <<"e">>, props |-> <<"p">>]
GivenTargets == [args |-> KeyLine, env |-> LineKey(ClassC, MethodM, 8),
                 props |-> LineKey(ClassD, MethodM, 7)]
GivenIncludes == [args |-> <<"a", ".", "b", ".", "c">>, env |-> <<"a", ".", "*">>, props |-> <<"p", ".", "*", "*", ",", " ", "q">>]
GivenExcludes == [args |-> <<"a", ".", "b", ".", "c", ".", "d">>, env |-> <<"*", "*", ".", "c", "o", "n", "f", "i", "g", ".", "*", "*">>, props |-> <<"a", ".", "x">>]
GivenModes == {Null, Observe, <<" ", "A", "c", "t", "u", "a", "t", "e", " ">>}
GivenBooleans == {<<"y", "e", "s">>, <<" ", "F", "a", "l", "s", "e">>}

\* the settings one source supplies at a launch: a mode or none, and the other five
\* settings together or none of them
GivenSettings(src) ==
  {[NoSettings EXCEPT !.mode = m] : m \in GivenModes}
    \cup {[mode |-> m, actuatorId |-> GivenIds[src], actuateTarget |-> GivenTargets[src],
           actuateReturnBoolean |-> b, include |-> GivenIncludes[src],
           exclude |-> GivenExcludes[src]] : m \in GivenModes, b \in GivenBooleans}

\* the agent-argument string that supplies the settings s
agentArgsOf(s) ==
  LET part(k, v) == IF v = Null THEN <<>> ELSE <<k \o <<"=">> \o v>>
  IN join(part(<<"p", "r", "o", "b", "e", "M", "o", "d", "e">>, s.mode) \o part(<<"a", "c", "t", "u", "a", "t", "o", "r", "I", "d">>, s.actuatorId)
            \o part(<<"t", "a", "r", "g", "e", "t", "K", "e", "y">>, s.actuateTarget)
            \o part(<<"a", "c", "t", "u", "a", "t", "e", "R", "e", "t", "u", "r", "n", "B", "o", "o", "l">>, s.actuateReturnBoolean)
            \o part(<<"i", "n", "c", "l", "u", "d", "e">>, s.include) \o part(<<"e", "x", "c", "l", "u", "d", "e", "s">>, s.exclude), <<";">>)

\* launches that supply include and exclude patterns in the agent arguments
FilterIncludes == {Null, <<"a", ".", "b", ".", "c">>, <<"a", ".", "*", ".", "c", ".", "X">>, <<"*", "*">>, <<"a", ".", "b", ".", "c", "*", ",", " ", "a", ".", "x", ".">>}
FilterExcludes == {Null, <<"a", ".", "b", ".", "c", ".", "d">>, <<"*", "*", ".", "e", ".", "*">>, <<"a", ".", "b", ".", "c", ".", "*", ",", " ", "*", "*", ".", "c", "X">>}
InferredIncludes == {Null, <<"a", ".", "x", ".", "*", "*">>}

AgentLaunches ==
  {[given |-> [args |-> a, env |-> e, props |-> p], inferred |-> Null] :
     a \in GivenSettings("args"), e \in GivenSettings("env"), p \in GivenSettings("props")}
    \cup {[given |-> [args |-> [NoSettings EXCEPT !.include = i, !.exclude = x],
                      env |-> NoSettings, props |-> NoSettings],
           inferred |-> f] :
            i \in FilterIncludes, x \in FilterExcludes, f \in InferredIncludes}

\* the class names the application loads
LoadedClasses ==
  {<<>>, <<"a", ".", "b", ".", "c", ".", "X">>, <<"a", ".", "b", ".", "c", ".", "d", ".", "e", ".", "X">>, <<"a", ".", "b", ".", "c", "X">>, <<"a", ".", "x", ".", "c", ".", "X">>,
   <<"a", ".", "b", ".", "c">>, <<"j", "a", "v", "a", ".", "X">>, <<"c", "o", "m", ".", "n", "i", "m", "b", "l", "y", ".", "m", "c", "p", "j", "v", "m", "d", "e", "b", "u", "g", "g", "e", "r", ".", "a", "g", "e", "n", "t", ".", "X">>}

NoAgentConfig == [mode |-> Observe, actuatorId |-> <<>>, actuateTargetKey |-> <<>>,
                  actuateReturnBoolean |-> FALSE, includePatterns |-> <<>>,
                  excludePatterns |-> <<>>]

\* an application thread outside every method of the loaded class
RunOut == [pc |-> "out",
           method |-> [name |-> <<>>, abstract |-> FALSE, native |-> FALSE,
                       returnsBoolean |-> FALSE],
           line |-> 0, reached |-> 0]

AgentIdle == [pc |-> "idle", given |-> [args |-> NoSettings, env |-> NoSettings,
                                         props |-> NoSettings],
              args |-> Null, inferred |-> Null, cfg |-> NoAgentConfig,
              cls |-> Null, instrumented |-> FALSE, run |-> RunOut]

\* the JVM is launched with the agent attached
AgentLaunched(launch) ==
  [AgentIdle EXCEPT !.pc = "launched", !.given = launch.given,
                    !.args = agentArgsOf(launch.given.args),
                    !.inferred = launch.inferred]

\* ProbeAgent.premain: the configuration is read (the defaults, then the agent
\* arguments over them), the runtime is configured from it and the instrumentation is
\* installed (no application thread runs yet)
Premain ==
  /\ agent.pc = "launched"
  /\ \E defaults \in {readDefaults(agent.given.props, agent.given.env, agent.inferred)} :
       \E parsed \in {parseAgentArgs(agent.args, defaults)} :
         \E cfg \in {agentConfig(parsed)} :
           \E new \in {configureFields(cfg.mode, cfg.actuatorId, cfg.actuateTargetKey,
                                       cfg.actuateReturnBoolean)} :
             /\ agent' = [agent EXCEPT !.pc = "installed", !.cfg = cfg]
             /\ MODE' = new.mode
             /\ ACTUATOR_ID' = new.actuatorId
             /\ ACTUATE_TARGET_KEY' = new.targetKey
             /\ ACTUATE_RETURN_BOOLEAN' = new.returnBoolean
  /\ UNCHANGED <<srv, net, hitVars, reader, planVars, hist>>

\* a class is loaded: the agent builder skips ignored names and asks shouldInstrument
ClassLoad(typeName) ==
  /\ agent.pc = "installed"
  /\ agent' = [agent EXCEPT !.cls = typeName,
                            !.instrumented = /\ ~ignored(typeName)
                                             /\ shouldInstrument(agent.cfg, typeName)]
  /\ UNCHANGED <<srv, net, hitVars, cfgVars, planVars, hist>>

----------------------------------------------------------------------------
(* Planner: the caller search of findControllerRequestCandidate, run when no  *)
(* controller calls the hinted method directly                                *)

\* findMethodCallContext found no call, or a call outside any method
NoCall == <<"\\0", "c">>

\* An index entry stands for one Java file: where its path lies, whether its
\* class name contains "service", and, for a callee, the method that encloses
\* the first call of it in the text.
IndexEntry(fileAbs, inService, classService, inController, inTest, text) ==
  [fileAbs |-> fileAbs, inService |-> inService, classService |-> classService,
   inController |-> inController, inTest |-> inTest, text |-> text]

findMethodCallContext(text, calleeMethodName) ==
  IF calleeMethodName \in DOMAIN text THEN text[calleeMethodName] ELSE NoCall

scoreCallerFile(entry) ==
  (IF entry.inService THEN 4 ELSE 0)
  + (IF entry.classService THEN 2 ELSE 0)
  - (IF entry.inController THEN 2 ELSE 0)

\* the callers in index order, before the sort
RECURSIVE callersInIndexOrder(_, _, _, _)
callersInIndexOrder(index, calleeMethodName, controllerSet, i) ==
  IF i > Len(index) THEN <<>>
  ELSE LET entry == index[i]
           call == findMethodCallContext(entry.text, calleeMethodName)
           rest == callersInIndexOrder(index, calleeMethodName, controllerSet, i + 1)
       IN IF entry.fileAbs \in controllerSet THEN rest
          ELSE IF entry.inTest THEN rest
          ELSE IF call = NoCall THEN rest
          ELSE <<[methodName |-> call, fileAbs |-> entry.fileAbs,
                  score |-> scoreCallerFile(entry)]>> \o rest

\* Array.prototype.sort with a comparator: an element comes after the elements
\* that compare lower and, as the sort is stable, after the earlier ones that
\* compare equal
stableSort(s, compare(_, _)) ==
  LET n == Len(s)
      position(i) ==
        1 + Cardinality({j \in 1..n : \/ compare(s[j], s[i]) < 0
                                      \/ compare(s[j], s[i]) = 0 /\ j < i})
  IN [p \in 1..n |-> s[CHOOSE i \in 1..n : position(i) = p]]

callerOrder(a, b) == b.score - a.score

findCallerMethodsForCallee(index, calleeMethodName, controllerSet) ==
  CHOOSE sorted \in {stableSort(out, callerOrder) :
                       out \in {callersInIndexOrder(index, calleeMethodName, controllerSet, 1)}} :
    TRUE

candidateOrder(a, b) ==
  IF b.score # a.score THEN b.score - a.score ELSE Len(a.chain) - Len(b.chain)

MaxCallersPerExpansion == 16
MaxExpandedDepth == 2

slice(s, n) == SubSeq(s, 1, min(n, Len(s)))

seenKey(depth, methodName) == NatToStr(depth) \o <<":">> \o methodName

isTooDeep_Three(current) == current.depth >= MaxExpandedDepth + 1

isTooDeep(current) == current.depth >= MaxExpandedDepth

NoQueueEntry == [methodName |-> <<>>, depth |-> 0, chain |-> <<>>]

SearchIdle ==
  [pc |-> "idle", index |-> <<>>, controllerSet |-> {}, methodHint |-> <<>>,
   methodQueue |-> <<>>, seenMethodDepth |-> {}, intermediateCandidates |-> <<>>,
   operationIdHints |-> {}, current |-> NoQueueEntry, callers |-> <<>>, i |-> 0,
   rootAbs |-> <<>>, workspaceRootAbs |-> <<>>, searchRootsAbs |-> <<>>]

\* no controller calls the hinted method: the index is built, and the queue and
\* the seen set are set up with the hinted method at depth 0
CallerSearchBegin(index, controllerSet, methodHint) ==
  /\ search.pc = "idle"
  /\ search' = [search EXCEPT
       !.pc = "while",
       !.index = index,
       !.controllerSet = controllerSet,
       !.methodHint = methodHint,
       !.methodQueue = <<[methodName |-> methodHint, depth |-> 0, chain |-> <<methodHint>>]>>,
       !.seenMethodDepth = {seenKey(0, methodHint)},
       !.intermediateCandidates = <<>>]
  /\ hist' = [hist EXCEPT !.pushed = <<[depth |-> 0, methodName |-> methodHint]>>]
  /\ UNCHANGED <<srv, net, hitVars, cfgVars, LAST_RESET_EPOCH_BY_KEY, wait, rst, stat,
                 recipe, infer, act, agent>>

\* the head of a pass of the while loop: the first entry is taken off the queue and,
\* unless it is too deep, its callers are looked up
CallerSearchShift ==
  /\ search.pc = "while"
  /\ search.methodQueue # <<>>
  /\ \E current \in {Head(search.methodQueue)} :
       IF isTooDeep(current)
       THEN /\ search' = [search EXCEPT !.methodQueue = Tail(@)]
            /\ hist' = hist
       ELSE \E found \in {findCallerMethodsForCallee(search.index, current.methodName,
                                                      search.controllerSet)} :
            \E callers \in {slice(found, MaxCallersPerExpansion)} :
              /\ search' = [search EXCEPT !.pc = "for",
                                          !.methodQueue = Tail(@),
                                          !.current = current,
                                          !.callers = callers,
                                          !.i = 1]
              /\ hist' = [hist EXCEPT !.expanded = @ \cup {current.depth},
                                      !.taken = max(@, Len(callers))]
  /\ UNCHANGED <<srv, net, hitVars, cfgVars, LAST_RESET_EPOCH_BY_KEY, wait, rst, stat,
                 recipe, infer, act, agent>>

\* one pass of the for loop over the callers: the caller is recorded as a candidate
\* and, unless its name was seen at this depth, put on the queue
CallerSearchVisit ==
  /\ search.pc = "for"
  /\ search.i <= Len(search.callers)
  /\ \E caller \in {search.callers[search.i]} :
     \E chain \in {<<caller.methodName>> \o search.current.chain} :
     \E nextDepth \in {search.current.depth + 1} :
     \E key \in {seenKey(nextDepth, caller.methodName)} :
     \E recorded \in {[search EXCEPT
                          !.i = @ + 1,
                          !.operationIdHints = @ \cup {caller.methodName},
                          !.intermediateCandidates =
                             Append(@, [methodName |-> caller.methodName, chain |-> chain,
                                        callerFileAbs |-> caller.fileAbs,
                                        score |-> caller.score])]} :
       IF key \in search.seenMethodDepth
       THEN /\ search' = recorded
            /\ hist' = hist
       ELSE /\ search' = [recorded EXCEPT
                            !.seenMethodDepth = @ \cup {key},
                            !.methodQueue = Append(@, [methodName |-> caller.methodName,
                                                       depth |-> nextDepth, chain |-> chain])]
            /\ hist' = [hist EXCEPT !.pushed = Append(@, [depth |-> nextDepth,
                                                          methodName |-> caller.methodName])]
  /\ UNCHANGED <<srv, net, hitVars, cfgVars, LAST_RESET_EPOCH_BY_KEY, wait, rst, stat,
                 recipe, infer, act, agent>>

\* the callers of the entry are through: back to the head of the while loop
CallerSearchNext ==
  /\ search.pc = "for"
  /\ search.i > Len(search.callers)
  /\ search' = [search EXCEPT !.pc = "while", !.current = NoQueueEntry,
                              !.callers = <<>>, !.i = 0]
  /\ UNCHANGED <<srv, net, hitVars, cfgVars, LAST_RESET_EPOCH_BY_KEY, wait, rst, stat,
                 recipe, infer, act, agent, hist>>

\* the queue ran empty: the candidates are sorted by score, then by chain length
CallerSearchSort ==
  /\ search.pc = "while"
  /\ search.methodQueue = <<>>
  /\ search' = [search EXCEPT
       !.pc = "sorted",
       !.intermediateCandidates = stableSort(@, candidateOrder)]
  /\ UNCHANGED <<srv, net, hitVars, cfgVars, LAST_RESET_EPOCH_BY_KEY, wait, rst, stat,
                 recipe, infer, act, agent, hist>>

----------------------------------------------------------------------------
(* Planner: the directories searched for controllers (buildSearchRoots)       *)

\* the segments of an absolute path with "", "." and ".." resolved
RECURSIVE resolveSegments(_, _, _)
resolveSegments(parts, i, kept) ==
  IF i > Len(parts) THEN kept
  ELSE IF parts[i] = <<>> \/ parts[i] = <<".">> THEN resolveSegments(parts, i + 1, kept)
  ELSE IF parts[i] = <<".", ".">>
       THEN resolveSegments(parts, i + 1,
                            IF kept = <<>> THEN kept ELSE SubSeq(kept, 1, Len(kept) - 1))
  ELSE resolveSegments(parts, i + 1, Append(kept, parts[i]))

\* path.resolve of an absolute POSIX path: no trailing separator, no "." or ".."
pathResolve(p) ==
  CHOOSE resolved \in {<<"/">> \o join(kept, <<"/">>) :
                         kept \in {resolveSegments(split(p, "/"), 1, <<>>)}} : TRUE

\* path.dirname of a resolved absolute path; the root is its own parent
pathDirname(p) ==
  LET cut == CHOOSE i \in 1..Len(p) : p[i] = "/" /\ \A j \in (i + 1)..Len(p) : p[j] # "/"
  IN IF cut = 1 THEN <<"/">> ELSE SubSeq(p, 1, cut - 1)

\* values.filter((value, i, arr) => !!value && arr.indexOf(value) === i)
RECURSIVE uniqueStrings(_, _)
uniqueStrings(values, i) ==
  IF i > Len(values) THEN <<>>
  ELSE (IF values[i] # <<>> /\ \A j \in 1..(i - 1) : values[j] # values[i]
        THEN <<values[i]>> ELSE <<>>) \o uniqueStrings(values, i + 1)

DashCore == <<"-", "c", "o", "r", "e">>

\* the roots before they are resolved and deduplicated, with the workspace root
\* pushed under the given test of the two resolved roots
searchRootsPushed(rootAbs, workspaceRootAbs, pushWorkspace(_, _)) ==
  LET normalizedRoot == pathResolve(rootAbs)
      baseName == toLowerCase(basename(normalizedRoot, <<>>))
      parent == pathDirname(normalizedRoot)
      normalizedWorkspace == pathResolve(workspaceRootAbs)
  IN <<rootAbs>>
     \o (IF endsWith(baseName, DashCore) /\ parent # normalizedRoot
         THEN <<parent>> ELSE <<>>)
     \o (IF pushWorkspace(normalizedRoot, normalizedWorkspace)
         THEN <<normalizedWorkspace>> ELSE <<>>)

resolveAll(roots) == [i \in 1..Len(roots) |-> pathResolve(roots[i])]

whenDistinct(normalizedRoot, normalizedWorkspace) == normalizedRoot # normalizedWorkspace

whenSame(normalizedRoot, normalizedWorkspace) == normalizedRoot = normalizedWorkspace

\* the workspace root is pushed when it differs from the project root
buildSearchRoots_WorkspaceWhenDistinct(rootAbs, workspaceRootAbs) ==
  CHOOSE out \in {uniqueStrings(resolved, 1) :
                    resolved \in {resolveAll(roots) :
                       roots \in {searchRootsPushed(rootAbs, workspaceRootAbs, whenDistinct)}}} :
    TRUE

buildSearchRoots(rootAbs, workspaceRootAbs) ==
  CHOOSE out \in {uniqueStrings(resolved, 1) :
                    resolved \in {resolveAll(roots) :
                       roots \in {searchRootsPushed(rootAbs, workspaceRootAbs, whenSame)}}} :
    TRUE

\* generateRecipe computes the search roots of a project before it looks for
\* controllers
BuildSearchRoots ==
  /\ search.pc = "called"
  /\ search' = [search EXCEPT !.pc = "roots",
                              !.searchRootsAbs = buildSearchRoots(search.rootAbs,
                                                                  search.workspaceRootAbs)]
  /\ UNCHANGED <<srv, net, hitVars, cfgVars, LAST_RESET_EPOCH_BY_KEY, wait, rst, stat,
                 recipe, infer, act, agent, hist>>

----------------------------------------------------------------------------
(* ProbeRuntime.reset and ProbeRuntime.configure as whole calls, made one     *)
(* after the other while no application thread is inside hit()                *)

\* one hit is taken back
reset_UndoOneHit(key) ==
  /\ hist.n < MaxCalls + 3
  /\ \A h \in Hitters : hitter[h].pc = "idle"
  /\ IF key = Null \/ isEmpty(key)
     THEN UNCHANGED <<COUNTS, LAST_HIT_EPOCH_MS>>
     ELSE /\ COUNTS' = [COUNTS EXCEPT ![key] = IF getCount(key) > 0 THEN getCount(key) - 1 ELSE 0]
          /\ LAST_HIT_EPOCH_MS' = [LAST_HIT_EPOCH_MS EXCEPT ![key] = 0]
  /\ hist' = [hist EXCEPT !.n = @ + 1, !.op = "reset", !.lastReset = <<key>>,
                          !.resetRepeated = @ \/ hist.lastReset = <<key>>]
  /\ UNCHANGED <<clock, hitter, srv, net, cfgVars, planVars, agent>>

\* ProbeRuntime.reset(key), from call to return
reset(key) ==
  /\ hist.n < MaxCalls + 3
  /\ \A h \in Hitters : hitter[h].pc = "idle"
  /\ IF key = Null \/ isEmpty(key)
     THEN UNCHANGED <<COUNTS, LAST_HIT_EPOCH_MS>>
     ELSE /\ COUNTS' = [COUNTS EXCEPT ![key] = 0]
          /\ LAST_HIT_EPOCH_MS' = [LAST_HIT_EPOCH_MS EXCEPT ![key] = 0]
  /\ hist' = [hist EXCEPT !.n = @ + 1, !.op = "reset", !.lastReset = <<key>>,
                          !.resetRepeated = @ \/ hist.lastReset = <<key>>]
  /\ UNCHANGED <<clock, hitter, srv, net, cfgVars, planVars, agent>>

\* ProbeRuntime.configure(mode, actuatorId, actuateTargetKey, actuateReturnBoolean),
\* from call to return
configure(mode, actuatorId, actuateTargetKey, actuateReturnBoolean) ==
  /\ hist.n < MaxCalls + 3
  /\ \E new \in {configureFields(mode, actuatorId, actuateTargetKey, actuateReturnBoolean)} :
       /\ MODE' = new.mode
       /\ ACTUATOR_ID' = new.actuatorId
       /\ ACTUATE_TARGET_KEY' = new.targetKey
       /\ ACTUATE_RETURN_BOOLEAN' = new.returnBoolean
  /\ hist' = [hist EXCEPT
                !.n = @ + 1, !.op = "configure",
                !.lastConfigure = <<mode, actuatorId, actuateTargetKey, actuateReturnBoolean>>,
                !.configureRepeated =
                   @ \/ hist.lastConfigure =
                          <<mode, actuatorId, actuateTargetKey, actuateReturnBoolean>>]
  /\ UNCHANGED <<hitVars, srv, net, reader, planVars, agent>>

----------------------------------------------------------------------------
(* Instrumentation installed on a loaded class, and an application thread     *)
(* running a method of it                                                     *)

LambdaPrefix == <<"l", "a", "m", "b", "d", "a", "$">>
MethodLambda == LambdaPrefix \o <<"0">>

\* the methods of the loaded class
AppMethods ==
  {[name |-> MethodM, abstract |-> FALSE, native |-> FALSE, returnsBoolean |-> FALSE],
   [name |-> MethodLambda, abstract |-> FALSE, native |-> FALSE, returnsBoolean |-> FALSE],
   [name |-> MethodN, abstract |-> TRUE, native |-> FALSE, returnsBoolean |-> FALSE],
   [name |-> MethodN, abstract |-> FALSE, native |-> TRUE, returnsBoolean |-> FALSE]}

\* the method matcher of the transformer, which is also the test of
\* LineHitVisitor.visitMethod
methodMatcher(method) ==
  /\ ~method.abstract
  /\ ~method.native
  /\ ~startsWith(method.name, LambdaPrefix)

transform_WithLineHitVisitor(method) ==
  IF methodMatcher(method)
  THEN {"HitAdvice", "LineHitVisitor"}
         \cup (IF method.returnsBoolean THEN {"BooleanActuationAdvice"} ELSE {})
  ELSE {}

\* AgentBuilder.Transformer.transform: what is woven into a method of a class the
\* type matcher accepted
transform(method) ==
  IF methodMatcher(method)
  THEN {"HitAdvice"} \cup (IF method.returnsBoolean THEN {"BooleanActuationAdvice"} ELSE {})
  ELSE {}

\* what the loaded class carries for the method
installedOn(method) == IF agent.instrumented THEN transform(method) ELSE {}

AppThread == "h1"

\* the application thread enters a method that has a body; HitAdvice.onEnter calls
\* ProbeRuntime.hitByClassMethod first
MethodEnter(method) ==
  /\ agent.pc = "installed"
  /\ agent.cls = ClassC
  /\ agent.run.pc = "out"
  /\ ~method.abstract /\ ~method.native
  /\ IF "HitAdvice" \in installedOn(method)
     THEN /\ hitCall(AppThread, MethodKey(agent.cls, method.name))
          /\ agent' = [agent EXCEPT !.run = [@ EXCEPT !.pc = "entered", !.method = method]]
     ELSE /\ agent' = [agent EXCEPT !.run = [@ EXCEPT !.pc = "body", !.method = method]]
          /\ UNCHANGED <<hitVars, srv, net, cfgVars, planVars, hist>>

\* the hit() call made by woven code has returned
HitReturn ==
  /\ agent.run.pc \in {"entered", "counting"}
  /\ hitter[AppThread].pc = "idle"
  /\ agent' = [agent EXCEPT !.run.pc = IF @ = "entered" THEN "body" ELSE "line"]
  /\ UNCHANGED <<hitVars, srv, net, cfgVars, planVars, hist>>

\* the thread reaches the first instruction of a source line: the call emitted by
\* LineHitVisitor.visitLineNumber, where the visitor is installed, runs before it
LineReached(line) ==
  /\ agent.run.pc = "body"
  /\ agent.run.reached < MaxCount
  /\ LET method == agent.run.method
         counts == agent.instrumented /\ methodMatcher(method) /\ line > 0
         run == [agent.run EXCEPT !.line = line,
                                  !.reached = IF counts THEN @ + 1 ELSE @]
     IN IF "LineHitVisitor" \in installedOn(method) /\ line > 0
        THEN /\ hitCall(AppThread, LineKey(agent.cls, method.name, line))
             /\ agent' = [agent EXCEPT !.run = [run EXCEPT !.pc = "counting"]]
        ELSE /\ agent' = [agent EXCEPT !.run = [run EXCEPT !.pc = "line"]]
             /\ UNCHANGED <<hitVars, srv, net, cfgVars, planVars, hist>>

\* the original instructions of the line run; the first of them may throw
LineInstructions(throws) ==
  /\ agent.run.pc = "line"
  /\ agent' = [agent EXCEPT !.run.pc = IF throws THEN "out" ELSE "body"]
  /\ UNCHANGED <<hitVars, srv, net, cfgVars, planVars, hist>>

\* the method returns
MethodReturn ==
  /\ agent.run.pc = "body"
  /\ agent' = [agent EXCEPT !.run.pc = "out"]
  /\ UNCHANGED <<hitVars, srv, net, cfgVars, planVars, hist>>

----------------------------------------------------------------------------
(* Initial states *)

HistInit(track) ==
  [track |-> track,
   zeroed |-> [k \in RtKeys |-> FALSE],
   hits |-> [k \in RtKeys |-> 0],
   tag |-> [h \in Hitters |-> NoTag],
   phase |-> 0, stage |-> "pre", firstEver |-> FALSE,
   freshDone |-> FALSE, seen |-> FALSE, goodDone |-> FALSE, must |-> FALSE,
   cands |-> {}, rdQuiet |-> FALSE, observeDone |-> FALSE, rdObs |-> FALSE,
   staleSeen |-> FALSE, staleBaseline |-> 0, staleInlineStart |-> 0,
   body |-> NoBody, before |-> ObserveCfg,
   n |-> 0, op |-> "none", lastReset |-> <<>>, lastConfigure |-> <<>>,
   resetRepeated |-> FALSE, configureRepeated |-> FALSE,
   pushed |-> <<>>, expanded |-> {}, taken |-> 0,
   hitT |-> 0, hitStored |-> FALSE]

InitHitTable ==
  /\ COUNTS = [k \in RtKeys |-> Absent]
  /\ LAST_HIT_EPOCH_MS = [k \in RtKeys |-> Absent]
  /\ clock = 1
  /\ hitter = [h \in Hitters |-> HitterIdle]
  /\ srv = SrvIdle
  /\ net = [c \in Callers |-> NetIdle]

InitObserve ==
  /\ MODE = Observe
  /\ ACTUATOR_ID = <<>>
  /\ ACTUATE_TARGET_KEY = <<>>
  /\ ACTUATE_RETURN_BOOLEAN = FALSE
  /\ reader = ReaderIdle

InitAgent == agent = AgentIdle

InitPlanner ==
  /\ LAST_RESET_EPOCH_BY_KEY = [k \in RtKeys |-> Absent]
  /\ wait = WaitIdle
  /\ rst = CallIdle
  /\ stat = CallIdle
  /\ recipe = RecipeIdle
  /\ infer = InferIdle
  /\ act = ActIdle
  /\ search = SearchIdle

----------------------------------------------------------------------------
(* SpecHits: hit() on application threads against reset and status *)

HitsInit == InitHitTable /\ InitAgent /\ InitObserve /\ InitPlanner /\ hist = HistInit("zeroed")

HitsNext ==
  \/ \E h \in Hitters, line \in HitLines : hitLineByClassMethod(h, ClassC, MethodM, line)
  \/ \E h \in Hitters : hitReadClock(h)
  \/ \E h \in Hitters : hitSetLast(h)
  \/ Tick
  \/ \E kind \in {"status", "reset"}, key \in RtKeys : ExtSend(kind, key)
  \/ ExtReceive
  \/ StatusHandlerReadCount("ext")
  \/ StatusHandlerRespond
  \/ ResetHandlerCounts("ext")
  \/ ResetHandlerRespond

SpecHits == HitsInit /\ [][HitsNext]_vars

\* no hit() call and no reset() call is partway through
Quiescent ==
  /\ \A h \in Hitters : hitter[h].pc = "idle"
  /\ srv.pc # "reset"

\* C4: whenever no hit(K) or reset(K) call is partway through, count(K) = 0 exactly
\* when lastHitEpochMs(K) = 0, under every interleaving of hit and reset.
C4_CountZeroIffLastZero ==
  Quiescent => \A k \in RtKeys : (getCount(k) = 0) <=> (getLastHitEpochMs(k) = 0)

\* a step that is not the zeroing of the count of k by reset(k)
NoResetOfCount(k) == ~(srv.pc # "reset" /\ srv'.pc = "reset" /\ srv'.key = k)

\* C13: between two resets of K getCount(K) never decreases and equals the number of
\* hit(K) calls since the last reset, at every moment and so also once the hits in
\* flight have completed; concurrent first hits creating the entry lose no increment.
C13_NoLostIncrement ==
  /\ [](\A k \in RtKeys : getCount(k) = hist.hits[k])
  /\ [][\A k \in RtKeys :
          NoResetOfCount(k) => (IF COUNTS'[k] = Absent THEN 0 ELSE COUNTS'[k]) >= getCount(k)]_vars

C13_Witness ==
  /\ \A h \in Hitters : hitter[h].pc = "inc" /\ hitter[h].key = KeyLine
  /\ LAST_HIT_EPOCH_MS[KeyLine] = Absent
  /\ srv.pc = "idle"
  /\ getCount(KeyLine) = 2

\* a step that is not the zeroing of the timestamp of k by reset(k)
NoResetOfLast(k) == ~(srv.pc = "reset" /\ srv.key = k /\ srv'.pc # "reset")

\* C14: between two resets of K getLastHitEpochMs(K) never decreases, the clock being
\* non-decreasing, under every interleaving of concurrent hit(K) calls.
C14_LastHitMonotonic ==
  [][\A k \in RtKeys :
       NoResetOfLast(k) =>
         (IF LAST_HIT_EPOCH_MS'[k] = Absent THEN 0 ELSE LAST_HIT_EPOCH_MS'[k])
           >= getLastHitEpochMs(k)]_vars

\* C5: from the 200 answer of reset(K) until the next step of a hit on K, whenever no
\* hit is partway through, the entry of K exists and getCount(K) = 0 and
\* getLastHitEpochMs(K) = 0.
C5_ZeroAfterReset ==
  \A k \in RtKeys :
    (hist.zeroed[k] /\ Quiescent) =>
      /\ COUNTS[k] = 0 /\ LAST_HIT_EPOCH_MS[k] = 0
      /\ getCount(k) = 0 /\ getLastHitEpochMs(k) = 0

----------------------------------------------------------------------------
(* SpecCfg: actuate requests reconfigure the runtime while an application thread *)
(* runs instrumented code                                                        *)

\* premain: AgentConfig.fromAgentArgs, then ProbeRuntime.configure, before any class
\* is instrumented and before the control-plane server starts
CfgInit ==
  /\ InitHitTable /\ InitAgent /\ InitPlanner
  /\ reader = ReaderIdle
  /\ \E mode \in CfgModes, actuatorId \in CfgActuatorIds, targetKey \in CfgTargets,
        returnBoolean \in BOOLEAN :
       LET a == fromAgentArgs(mode, actuatorId, targetKey, returnBoolean)
           new == configureFields(a.mode, a.actuatorId, a.targetKey, a.returnBoolean)
       IN /\ MODE = new.mode
          /\ ACTUATOR_ID = new.actuatorId
          /\ ACTUATE_TARGET_KEY = new.targetKey
          /\ ACTUATE_RETURN_BOOLEAN = new.returnBoolean
          /\ hist = [HistInit("cfg") EXCEPT !.observeDone = (a.mode # Actuate)]

CfgNext ==
  \/ \E body \in ActuateBodies : ExtSendActuate(body)
  \/ ActuateHandler("ext")
  \/ ExtReceive
  \/ configureSetMode
  \/ configureSetActuatorId
  \/ configureSetTargetKey
  \/ configureSetReturnBoolean
  \/ \E site \in ReadSites, line \in ReadLines :
       ReaderCall("branchDecisionByClassMethodLine", site[1], site[2], line, FALSE)
  \/ \E site \in ReadSites, ret \in BOOLEAN :
       ReaderCall("onExit", site[1], site[2], 0, ret)
  \/ ReaderReadMode
  \/ ReaderReadBlank
  \/ ReaderReadKey
  \/ ReaderReadBoolean

SpecCfg == CfgInit /\ [][CfgNext]_vars

\* the target key is compared with the method key of the call site
branchDecisionOn_MethodKey(cfg, c, m, line) ==
  IF cfg.mode # Actuate THEN -1
  ELSE IF isBlank(cfg.targetKey) THEN -1
  ELSE IF invalidCallSite("branchDecisionByClassMethodLine", c, m, line) THEN -1
  ELSE IF cfg.targetKey # MethodKey(c, m) THEN -1
  ELSE IF cfg.returnBoolean THEN 1 ELSE 0

\* branchDecisionByClassMethodLine evaluated on one complete configuration
branchDecisionOn(cfg, c, m, line) ==
  IF cfg.mode # Actuate THEN -1
  ELSE IF isBlank(cfg.targetKey) THEN -1
  ELSE IF invalidCallSite("branchDecisionByClassMethodLine", c, m, line) THEN -1
  ELSE IF cfg.targetKey # LineKey(c, m, line) THEN -1
  ELSE IF cfg.returnBoolean THEN 1 ELSE 0

\* shouldActuateBooleanReturn evaluated on one complete configuration
shouldActuateBooleanReturnOn(cfg, c, m) ==
  /\ cfg.mode = Actuate
  /\ ~isBlank(cfg.targetKey)
  /\ ~invalidCallSite("onExit", c, m, 0)
  /\ cfg.targetKey = MethodKey(c, m)

\* C6: a bytecode-issued read that overlaps configure calls returns what one of the
\* complete configurations (the one before a call, or the one after it) would give.
C6_ReadsSeeOneConfiguration ==
  reader.pc = "done" =>
    \E cfg \in hist.cands :
      IF reader.fn = "onExit"
      THEN /\ reader.should = shouldActuateBooleanReturnOn(cfg, reader.c, reader.m)
           /\ reader.returnValue = IF reader.should THEN cfg.returnBoolean ELSE reader.ret
      ELSE reader.result = branchDecisionOn(cfg, reader.c, reader.m, reader.line)

\* C7: once a configure call with a mode other than actuate has completed, the
\* configuration is (observe, "", "", false), and reads begun from then on, before
\* the next configure call with mode actuate, give -1 and false and keep return values.
C7_ObserveClearsActuation ==
  /\ hist.observeDone =>
       /\ MODE = Observe
       /\ ACTUATOR_ID = <<>>
       /\ ACTUATE_TARGET_KEY = <<>>
       /\ ACTUATE_RETURN_BOOLEAN = FALSE
  /\ (reader.pc = "done" /\ hist.rdObs) =>
       /\ reader.result = -1
       /\ reader.should = FALSE
       /\ reader.returnValue = reader.ret

C7_Witness ==
  /\ hist.observeDone
  /\ hist.rdObs
  /\ reader.pc = "done"
  /\ reader.fn = "branchDecisionByClassMethodLine"
  /\ reader.c = ClassC /\ reader.m = MethodM /\ reader.line = 7
  /\ srv.pc = "idle"
  /\ srv.configures = 1
  /\ srv.old = [mode |-> Actuate, actuatorId |-> <<"a">>, targetKey |-> KeyLine,
                returnBoolean |-> TRUE]

\* C8: with the configuration at rest, branchDecisionByClassMethodLine(c, m, line)
\* returns 1 when mode is actuate, the target is non-empty and equals c#m:line and the
\* forced boolean is true, 0 when it is false, and -1 otherwise, line <= 0 included.
C8_BranchDecision ==
  (reader.pc = "done" /\ reader.fn = "branchDecisionByClassMethodLine" /\ hist.rdQuiet) =>
    reader.result =
      IF reader.line <= 0 THEN -1
      ELSE IF /\ MODE = Actuate
              /\ ACTUATE_TARGET_KEY # <<>>
              /\ ACTUATE_TARGET_KEY = LineKey(reader.c, reader.m, reader.line)
           THEN IF ACTUATE_RETURN_BOOLEAN THEN 1 ELSE 0
           ELSE -1

C8_Witness ==
  /\ reader.pc = "done"
  /\ reader.fn = "branchDecisionByClassMethodLine"
  /\ hist.rdQuiet
  /\ reader.result = 1

\* C9: with the configuration at rest, shouldActuateBooleanReturn(c, m) is true
\* exactly when mode is actuate and the target equals c#m, and onExit hands back the
\* forced boolean in that case and the method's own return value otherwise.
C9_BooleanActuation ==
  (reader.pc = "done" /\ reader.fn = "onExit" /\ hist.rdQuiet) =>
    LET expected == MODE = Actuate /\ ACTUATE_TARGET_KEY = MethodKey(reader.c, reader.m)
    IN /\ reader.should = expected
       /\ reader.returnValue = IF expected THEN ACTUATE_RETURN_BOOLEAN ELSE reader.ret

C9_Witness ==
  /\ reader.pc = "done"
  /\ reader.fn = "onExit"
  /\ hist.rdQuiet
  /\ reader.should
  /\ reader.returnValue # reader.ret

----------------------------------------------------------------------------
(* SpecWait: probe_reset and probe_wait_hit on the line key against the runtime, *)
(* with one application thread hitting that line                                *)

WaitInit == InitHitTable /\ InitAgent /\ InitObserve /\ InitPlanner /\ hist = HistInit("none")

WaitNext ==
  \/ \E line \in HitLines : hitLineByClassMethod("h1", ClassC, MethodM, line)
  \/ hitReadClock("h1")
  \/ hitSetLast("h1")
  \/ Tick
  \/ StatusHandlerReadCount("wait")
  \/ StatusHandlerRespond
  \/ ResetHandlerCounts("rst")
  \/ ResetHandlerRespond
  \/ \E c \in {"wait", "rst"} : TransportFailure(c)
  \/ \E t \in ArgTimeouts, r \in ArgRetries : probeWaitHit(KeyLine, NoHint, t, r)
  \/ WaitOnBaseline
  \/ WaitOnPoll
  \/ WaitAfterSleep
  \/ WaitOnError
  \/ probeReset(KeyLine, NoHint)
  \/ ResetOnResponse
  \/ ResetOnError

SpecWait == WaitInit /\ [][WaitNext]_vars

\* C1: probe_wait_hit returns hit=true only with a status whose lastHitEpochMs is at
\* least the attempt's inlineStart (the recorded reset epoch, or the attempt's wait
\* start) and whose count is positive (baseline path) or above the attempt's
\* baseline count (poll path).
C1_HitOnlyWhenInline ==
  (wait.pc = "done" /\ wait.result.kind = "hit") =>
    LET r == wait.result
    IN /\ r.lastHitEpochMs >= r.inlineStart
       /\ r.inlineStart <= r.waitStart
       /\ \/ r.source = "baseline" /\ r.baselineCount > 0 /\ r.hitCount = r.baselineCount
          \/ r.source = "poll" /\ r.hitCount > r.baselineCount

C1_Witness ==
  /\ wait.pc = "done"
  /\ wait.result.kind = "hit"
  /\ wait.result.source = "poll"
  /\ wait.result.inlineStart = LAST_RESET_EPOCH_BY_KEY[wait.key]

\* C11: a staleCandidate is returned only with hit=false, and it was taken from a poll
\* whose count exceeded that attempt's baseline count and whose lastHitEpochMs was
\* strictly below that attempt's inlineStart.
C11_StaleCandidate ==
  (wait.pc = "done" /\ wait.result.stale.set) =>
    LET st == wait.result.stale
    IN /\ wait.result.kind = "timeout"
       /\ st.hitDelta > 0
       /\ st.hitDelta = st.hitCount - hist.staleBaseline
       /\ st.lastHitEpochMs < hist.staleInlineStart

C11_Witness ==
  /\ wait.pc = "done"
  /\ wait.result.kind = "timeout"
  /\ wait.result.stale.set
  /\ wait.result.stale.lastHitEpochMs > 0

----------------------------------------------------------------------------
(* SpecWaitLive: probe_wait_hit with a clock that does not stop during the wait, *)
(* the runtime answering and the timers firing                                   *)

WaitLiveNext ==
  \/ \E line \in HitLines : hitLineByClassMethod("h1", ClassC, MethodM, line)
  \/ hitReadClock("h1")
  \/ hitSetLast("h1")
  \/ Tick
  \/ TickWhileWaiting
  \/ StatusHandlerReadCount("wait")
  \/ StatusHandlerRespond
  \/ TransportFailure("wait")
  \/ \E t \in ArgTimeouts, r \in ArgRetries : probeWaitHit(KeyLine, NoHint, t, r)
  \/ WaitOnBaseline
  \/ WaitOnPoll
  \/ WaitAfterSleep
  \/ WaitOnError

WaitLiveFair ==
  /\ WF_vars(Tick)
  /\ WF_vars(TickWhileWaiting)
  /\ WF_vars(StatusHandlerReadCount("wait"))
  /\ WF_vars(StatusHandlerRespond)
  /\ WF_vars(WaitOnBaseline)
  /\ WF_vars(WaitOnPoll)
  /\ WF_vars(WaitAfterSleep)
  /\ WF_vars(WaitOnError)

SpecWaitLive == WaitInit /\ [][WaitLiveNext]_vars /\ WaitLiveFair

WaitRunning == wait.pc \notin {"idle", "done"}

\* the attempt counter and the clamped arguments of a running wait
WaitBounded ==
  WaitRunning =>
    /\ wait.maxRetries \in 1..HARD_MAX_PROBE_WAIT_MAX_RETRIES
    /\ wait.timeoutMs \in 1000..HARD_MAX_PROBE_TIMEOUT_MS
    /\ wait.attempt \in 1..wait.maxRetries

\* the result of a finished wait
WaitResultShape ==
  wait.pc = "done" =>
    /\ wait.result.kind \in {"hit", "timeout", "threw"}
    /\ wait.result.stale.set => (wait.result.kind = "timeout" /\ hist.staleSeen)

\* a poll is started only while less than timeoutMs has elapsed in its attempt
PollStartsWithinTimeout ==
  (wait'.pc = "poll" /\ wait.pc # "poll") => (clock' * MsPerTick - wait'.waitStart < wait'.timeoutMs)

\* C12: probe_wait_hit terminates: at most maxRetries (1..10) attempts, each polling
\* only while less than timeoutMs has elapsed since it began; it ends with a hit, with
\* hit=false / timeout_no_inline_hit (a staleCandidate only if a poll saw a count
\* increase with a stale timestamp), or by throwing when the probe is unreachable.
C12_WaitTerminates ==
  /\ [](WaitBounded /\ WaitResultShape)
  /\ [][PollStartsWithinTimeout]_vars
  /\ (WaitRunning ~> wait.pc = "done")

C12_Witness ==
  /\ wait.pc = "done"
  /\ wait.result.kind = "timeout"
  /\ ~wait.result.stale.set
  /\ wait.result.polled
  /\ clock > MaxTicks

WaitSeqInit == InitHitTable /\ InitAgent /\ InitObserve /\ InitPlanner /\ hist = HistInit("sequence")

SpecWaitSeq == WaitSeqInit /\ [][WaitNext]_vars

\* C2: probe_reset(K) has returned with a 2xx answer, then a hit on K is recorded,
\* then probe_wait_hit(K) is called, with no reset after the first: the wait returns
\* hit=true from the baseline check of attempt 1 and never polls.
C2_BaselineHitAfterReset ==
  (wait.pc = "done" /\ hist.phase = 3 /\ wait.result.kind # "threw") =>
    /\ wait.result.kind = "hit"
    /\ wait.result.source = "baseline"
    /\ wait.result.attempt = 1
    /\ ~wait.result.polled
    /\ wait.result.inlineStart = LAST_RESET_EPOCH_BY_KEY[KeyLine]

C2_Witness ==
  /\ wait.pc = "done"
  /\ hist.phase = 3
  /\ wait.result.kind = "hit"

WaitFreshInit == InitHitTable /\ InitAgent /\ InitObserve /\ InitPlanner /\ hist = HistInit("fresh")

SpecWaitFresh == WaitFreshInit /\ [][WaitNext]_vars

\* C3 as stated: on a first-ever wait, a hit that starts after the call and is
\* complete when a status request of the wait is served makes the wait return hit=true.
C3_FreshHitAccepted ==
  (wait.pc = "done" /\ hist.firstEver /\ hist.seen /\ wait.result.kind # "threw") =>
    wait.result.kind = "hit"

\* C3 as amended: on a first-ever wait, a hit that starts and completes within one
\* attempt, before that attempt's baseline is read or after it and before one of that
\* attempt's polls is read, makes the wait return hit=true.
C3_FreshHitWithinAttempt ==
  (wait.pc = "done" /\ hist.firstEver /\ hist.must /\ wait.result.kind # "threw") =>
    wait.result.kind = "hit"

C3_Witness ==
  /\ wait.pc = "done"
  /\ hist.firstEver
  /\ hist.must
  /\ wait.result.kind = "hit"
  /\ wait.result.attempt = 2

----------------------------------------------------------------------------
(* SpecRecipe: recipe_generate over every combination of its inputs *)

RecipeArgs ==
  [mode : ArgModes, lineHint : ArgLineHints, authToken : ArgTokens,
   authUsername : ArgUsernames, authPassword : ArgPasswords]

\* what the project's OpenAPI document and controller file say about auth
RecipeEnvs == [openapi : OpenApiHints, controllerSecure : BOOLEAN]

\* arguments of generateRecipe with what its helpers return
GenerateCalls ==
  {[RecipeIdle EXCEPT !.pc = "called", !.fn = "generateRecipe",
                      !.args = a, !.top = t, !.match = m, !.env = e] :
     a \in RecipeArgs, t \in Tops, m \in ControllerMatches, e \in RecipeEnvs}

\* arguments of buildRecipeExecutionPlan in every combination
PlanCalls ==
  {[RecipeIdle EXCEPT !.pc = "called", !.fn = "buildRecipeExecutionPlan",
                      !.args.mode = md, !.args.lineHint = l,
                      !.top = [present |-> TRUE, key |-> k, file |-> f, line |-> NoHint],
                      !.match.recipe = rq, !.auth = au] :
     md \in ArgModes, l \in ArgLineHints, k \in {Undefined, RecipeKey},
     f \in {Undefined, RecipeFile}, rq \in {NoRequest, RequestGet, RequestPatch},
     au \in ResolvedAuths \cup {UnresolvedAuth, NoEntrypointAuth}}

\* call sites of buildRecipeCandidate in every combination
CandidateCalls ==
  {[RecipeIdle EXCEPT !.pc = "called", !.fn = "buildRecipeCandidate",
                      !.ctl = [mapping |-> mp, iface |-> im, classBase |-> cb, param |-> ps,
                               openapiPath |-> op]] :
     mp \in MethodMappings, im \in InterfaceMappings, cb \in ClassBasePaths,
     ps \in ParamSources, op \in OpenApiPaths}

RecipeInit ==
  /\ InitHitTable
  /\ InitAgent
  /\ InitObserve
  /\ LAST_RESET_EPOCH_BY_KEY = [k \in RtKeys |-> Absent]
  /\ wait = WaitIdle
  /\ rst = CallIdle
  /\ stat = CallIdle
  /\ recipe \in GenerateCalls \cup PlanCalls
  /\ infer = InferIdle
  /\ act = ActIdle
  /\ search = SearchIdle
  /\ hist = HistInit("none")

RecipeNext ==
  \/ generateRecipe
  \/ BuildPlan

SpecRecipe == RecipeInit /\ [][RecipeNext]_vars

Plan == recipe.out.executionPlan

Phases(steps) == [i \in 1..Len(steps) |-> steps[i].phase]

Titles(steps) == [i \in 1..Len(steps) |-> steps[i].title]

\* C15: every execution plan has exactly one populated step list, chosen by its mode,
\* for every combination of requested mode, inferred target key, line hint, request
\* candidate and auth status.
C15_OneStepListPopulated ==
  recipe.pc = "done" =>
    /\ Plan.mode \in {"natural", "actuated"}
    /\ Plan.mode = "natural" => (Plan.naturalSteps # <<>> /\ Plan.actuatedSteps = <<>>)
    /\ Plan.mode = "actuated" => (Plan.actuatedSteps # <<>> /\ Plan.naturalSteps = <<>>)

C15_Witness ==
  /\ recipe.pc = "done"
  /\ recipe.fn = "buildRecipeExecutionPlan"
  /\ Plan.mode = "actuated"
  /\ recipe.top.key = Undefined
  /\ Len(Plan.actuatedSteps) = 1

\* generateRecipe called without a mode, a target inferred, no controller in the tree
NoModeNoController ==
  /\ recipe.pc = "done"
  /\ recipe.fn = "generateRecipe"
  /\ recipe.args.mode = Undefined
  /\ recipe.top.present
  /\ ~recipe.match.recipe.present
  /\ recipe.match.matchedControllerFile = Undefined

RequestedMode == IF recipe.args.mode = Undefined THEN "natural" ELSE recipe.args.mode

NaturalWithRequest ==
  /\ recipe.pc = "done"
  /\ RequestedMode = "natural"
  /\ recipe.match.recipe.present
  /\ recipe.fn = "generateRecipe" => recipe.top.present

\* the auth resolution the plan was built with
PlanAuth == IF recipe.fn = "generateRecipe" THEN recipe.out.auth ELSE recipe.auth

\* C18: a natural-mode plan with a request candidate has the steps, in this order,
\* 'Resolve authentication' (exactly when auth.status = needs_user_input), 'Reset probe
\* baseline', 'Execute natural request', and a verify step: the reset precedes the
\* request, verification follows it, and there are at least 3 steps.
C18_NaturalStepOrder ==
  NaturalWithRequest =>
    LET steps == Plan.naturalSteps
        pending == PlanAuth.status = "needs_user_input"
        off == IF pending THEN 1 ELSE 0
    IN /\ Len(steps) = 3 + off
       /\ pending => steps[1].title = "Resolve authentication"
       /\ \A i \in 1..Len(steps) : steps[i].title = "Resolve authentication" => (pending /\ i = 1)
       /\ steps[off + 1].title = "Reset probe baseline"
       /\ steps[off + 2].title = "Execute natural request"
       /\ steps[off + 2].phase = "execute"
       /\ steps[off + 3].phase = "verify"
       /\ \A i \in 1..Len(steps) : steps[i].phase = "verify" => i = off + 3

C18_Witness ==
  /\ NaturalWithRequest
  /\ recipe.fn = "generateRecipe"
  /\ PlanAuth.status = "needs_user_input"
  /\ Len(Plan.naturalSteps) = 4
  /\ recipe.out.status = "unreachable_natural"

\* a finished actuated-mode plan
ActuatedPlan == recipe.pc = "done" /\ RequestedMode = "actuated"

\* the target keys an arming instruction can name for an inferred key
ArmableKeys(key) == {key} \cup {key \o ":" \o ToString(l) : l \in ArgLineHints \ {NoHint}}

IsArmStep(step, key) == \E k \in ArmableKeys(key) : step.instruction = ArmInstruction(k)

IsDisarmStep(step, key) ==
  \E l \in ArgLineHints : step.instruction = DisarmInstruction(key, l)

\* actuated mode without an inferred target key: no arming, verify or cleanup step
NoKeyNoArming ==
  (ActuatedPlan /\ recipe.top.key = Undefined) =>
    \A i \in 1..Len(Plan.actuatedSteps) :
      /\ Plan.actuatedSteps[i].phase \notin {"verify", "cleanup"}
      /\ ~IsArmStep(Plan.actuatedSteps[i], RecipeKey)
      /\ ~IsArmStep(Plan.actuatedSteps[i], NotInferred)

\* C19 as stated: in actuated mode with an inferred target key the phases are exactly
\* [prepare, verify, cleanup], the prepare step arms with actuatorId
\* recipe_generate_fallback and the last step disarms with mode=observe; with no
\* inferred target key the plan has no arming, verify or cleanup step.
C19_ArmThenDisarm ==
  /\ (ActuatedPlan /\ recipe.top.key # Undefined) =>
        /\ Phases(Plan.actuatedSteps) = <<"prepare", "verify", "cleanup">>
        /\ IsArmStep(Plan.actuatedSteps[1], recipe.top.key)
        /\ IsDisarmStep(Plan.actuatedSteps[3], recipe.top.key)
  /\ NoKeyNoArming

\* C19 amended: in actuated mode with an inferred target key the phases are exactly
\* [prepare, verify, cleanup] and the last step disarms with mode=observe; the prepare
\* step arms (targetKey key:line, actuatorId recipe_generate_fallback) exactly when a
\* line hint is given and otherwise asks for a line_key_required report; with no
\* inferred target key the plan has no arming, verify or cleanup step.
C19_ArmOnlyWithLineHint ==
  /\ (ActuatedPlan /\ recipe.top.key # Undefined) =>
        /\ Phases(Plan.actuatedSteps) = <<"prepare", "verify", "cleanup">>
        /\ IsDisarmStep(Plan.actuatedSteps[3], recipe.top.key)
        /\ IF recipe.args.lineHint # NoHint
           THEN Plan.actuatedSteps[1].instruction =
                  ArmInstruction(recipe.top.key \o ":" \o ToString(recipe.args.lineHint))
           ELSE /\ Plan.actuatedSteps[1].instruction = LineRequiredForActuation
                /\ ~IsArmStep(Plan.actuatedSteps[1], recipe.top.key)
  /\ NoKeyNoArming

C19_Witness ==
  /\ ActuatedPlan
  /\ recipe.top.key = RecipeKey
  /\ recipe.args.lineHint = NoHint
  /\ Len(Plan.actuatedSteps) = 3
  /\ Plan.actuatedSteps[3].phase = "cleanup"

\* C20: generateRecipe's status and resultType: no method candidate gives report /
\* target_not_inferred; natural mode with no request candidate, or with one but auth
\* pending, gives report / unreachable_natural; actuated mode with no inferred target
\* key gives report / actuated_blocked; otherwise recipe / natural_ready or recipe /
\* actuated_ready. So natural_ready implies one request candidate and auth not pending.
C20_StatusTable ==
  (recipe.pc = "done" /\ recipe.fn = "generateRecipe") =>
    LET out == recipe.out
        noCandidate == out.requestCandidates = <<>>
        pending == out.auth.status = "needs_user_input"
        expected ==
          IF ~recipe.top.present THEN <<"report", "target_not_inferred">>
          ELSE IF RequestedMode = "natural" /\ (noCandidate \/ pending)
               THEN <<"report", "unreachable_natural">>
          ELSE IF RequestedMode = "actuated" /\ recipe.top.key = Undefined
               THEN <<"report", "actuated_blocked">>
          ELSE IF RequestedMode = "natural" THEN <<"recipe", "natural_ready">>
          ELSE <<"recipe", "actuated_ready">>
    IN /\ <<out.resultType, out.status>> = expected
       /\ noCandidate <=> ~(recipe.top.present /\ recipe.match.recipe.present)
       /\ out.status = "natural_ready" => (Len(out.requestCandidates) = 1 /\ ~pending)

C20_Witness ==
  /\ recipe.pc = "done"
  /\ recipe.fn = "generateRecipe"
  /\ recipe.args.mode = "natural"
  /\ recipe.match.recipe.present
  /\ recipe.out.auth.status = "needs_user_input"
  /\ recipe.out.status = "unreachable_natural"

AuthWellFormed(a) ==
  /\ a.status = "auto_resolved" =>
        /\ a.requestHeaders # <<>>
        /\ \A i \in 1..Len(a.requestHeaders) : a.requestHeaders[i].v # <<>>
  /\ a.status = "needs_user_input" => a.missing # <<>>
  /\ a.status = "not_required" => (a.strategy = "none" /\ a.requestHeaders = <<>>)

\* C21: every auth resolution returned by resolveAuthForRecipe or generateRecipe has
\* request headers when status = auto_resolved, a non-empty missing list when status =
\* needs_user_input, and strategy none without headers when status = not_required, for
\* every inferred requirement and strategy and every supplied token, username and
\* password, blank ones included.
C21_AuthResolutionShape ==
  (recipe.pc = "done" /\ recipe.fn = "generateRecipe") => AuthWellFormed(recipe.out.auth)

C21_Witness ==
  /\ recipe.pc = "done"
  /\ recipe.fn = "generateRecipe"
  /\ recipe.args.authToken = <<" ">>
  /\ recipe.args.authPassword = <<"p", "w">>
  /\ recipe.out.auth.status = "auto_resolved"
  /\ recipe.out.auth.strategy = "basic"
  /\ Text(recipe.out.auth.requestHeaders[1].v) = "Basic dXNyOnB3"

----------------------------------------------------------------------------
(* SpecCandidate: buildRecipeCandidate over every kind of controller call site *)

CandidateInit ==
  /\ InitHitTable
  /\ InitAgent
  /\ InitObserve
  /\ LAST_RESET_EPOCH_BY_KEY = [k \in RtKeys |-> Absent]
  /\ wait = WaitIdle
  /\ rst = CallIdle
  /\ stat = CallIdle
  /\ recipe \in CandidateCalls
  /\ infer = InferIdle
  /\ act = ActIdle
  /\ search = SearchIdle
  /\ hist = HistInit("none")

CandidateNext == BuildCandidate

SpecCandidate == CandidateInit /\ [][CandidateNext]_vars

\* C22: a request candidate is emitted only when its route was resolved from a
\* method-level mapping (on the controller method or on an implemented interface) or
\* from an OpenAPI document; none is built from the class-level base path alone with a
\* defaulted method.
C22_CandidateOnlyWithRoute ==
  (recipe.pc = "done" /\ recipe.fn = "buildRecipeCandidate"
     /\ recipe.out.requestCandidates # <<>>) =>
    \/ recipe.ctl.mapping.present
    \/ recipe.ctl.iface.present
    \/ (recipe.ctl.param \in {"query", "legacy"} /\ recipe.ctl.openapiPath # Undefined)

----------------------------------------------------------------------------
(* SpecHttp: the control plane answering every kind of request, next to hit() *)

\* premain has configured the runtime from the agent arguments; no hit yet
HttpInit ==
  /\ InitHitTable /\ InitAgent /\ InitPlanner
  /\ reader = ReaderIdle
  /\ \E mode \in {Null, Actuate}, targetKey \in {Null, KeyLine}, returnBoolean \in BOOLEAN :
       LET a == fromAgentArgs(mode, <<"a">>, targetKey, returnBoolean)
           new == configureFields(a.mode, a.actuatorId, a.targetKey, a.returnBoolean)
       IN /\ MODE = new.mode
          /\ ACTUATOR_ID = new.actuatorId
          /\ ACTUATE_TARGET_KEY = new.targetKey
          /\ ACTUATE_RETURN_BOOLEAN = new.returnBoolean
  /\ hist = HistInit("http")

HttpMethods == {HttpGet, <<"g", "e", "t">>, HttpPost, <<"P", "U", "T">>}
QueryKeys == {Null, <<>>, KeyLine}
BodyKeys == {Null, KeyNoClass}

HttpNext ==
  \/ \E line \in HitLines : hitLineByClassMethod("h1", ClassC, MethodM, line)
  \/ hitReadClock("h1")
  \/ hitSetLast("h1")
  \/ \E kind \in {"status", "reset", "actuate"}, method \in HttpMethods,
        key \in QueryKeys, bodyKey \in BodyKeys :
       HttpSend(kind, method, key, bodyKey, NoBody)
  \/ ExtReceive
  \/ MethodNotAllowed("ext")
  \/ MissingKey("ext")
  \/ StatusHandlerReadCount("ext")
  \/ StatusHandlerRespond
  \/ ResetHandlerCounts("ext")
  \/ ResetHandlerRespond
  \/ ActuateHandler("ext")
  \/ configureSetMode
  \/ configureSetActuatorId
  \/ configureSetTargetKey
  \/ configureSetReturnBoolean

SpecHttp == HttpInit /\ [][HttpNext]_vars

\* the state of the runtime: hit table and configuration
RuntimeState == <<COUNTS, LAST_HIT_EPOCH_MS, MODE, ACTUATOR_ID, ACTUATE_TARGET_KEY,
                  ACTUATE_RETURN_BOOLEAN>>

\* the method a request must have, whatever its letter case
RequiredMethod(rq) == IF rq.kind = "status" THEN "get" ELSE "post"

\* a request without a key: no ?key= or an empty one and, for reset, no "key" in
\* the body either
LacksKey(rq) ==
  /\ rq.key \in {Null, <<>>}
  /\ rq.kind = "reset" => rq.bodyKey \in {Null, <<>>}

\* the status code and error a request is to be answered with
ExpectedAnswer(rq) ==
  IF Text(toLowerCase(rq.method)) # RequiredMethod(rq)
  THEN [code |-> 405, error |-> "method_not_allowed"]
  ELSE IF rq.kind \in {"status", "reset"} /\ LacksKey(rq)
  THEN [code |-> 400, error |-> "missing_key"]
  ELSE [code |-> 200, error |-> ""]

\* the step in which the request of the client is answered
Answered == net["ext"].st = "req" /\ net'["ext"].st = "resp"

\* a step of the status handler
StatusHandling ==
  \/ net["ext"].kind = "status" /\ Answered
  \/ srv.pc = "idle" /\ srv'.pc = "status"
  \/ srv.pc = "status" /\ srv'.pc = "idle"

\* C26: a request with a method that is not allowed is answered 405, a status or reset
\* request without a key 400 missing_key, both leaving hit table and configuration
\* as they are; every other request is answered 200; no step of the status handler
\* changes hit table or configuration.
C26_AnswerCodes ==
  [][/\ Answered =>
          /\ net'["ext"].code = ExpectedAnswer(net["ext"]).code
          /\ net'["ext"].error = ExpectedAnswer(net["ext"]).error
          /\ net'["ext"].code # 200 => UNCHANGED RuntimeState
     /\ StatusHandling => UNCHANGED RuntimeState]_vars

\* a reset without key is being answered 400 while the table holds two hits, and
\* the runtime is armed
C26_Witness ==
  /\ net["ext"].st = "resp"
  /\ net["ext"].kind = "reset"
  /\ net["ext"].code = 400
  /\ COUNTS[KeyLine] = 2
  /\ MODE = Actuate

----------------------------------------------------------------------------
(* SpecActuate: POST /__probe/actuate with every kind of body on every configuration *)

\* premain has configured the runtime from the agent arguments
ActuateInit ==
  /\ InitHitTable /\ InitAgent /\ InitPlanner
  /\ reader = ReaderIdle
  /\ \E mode \in CfgModes, actuatorId \in CfgActuatorIds, targetKey \in CfgTargets,
        returnBoolean \in BOOLEAN :
       LET a == fromAgentArgs(mode, actuatorId, targetKey, returnBoolean)
           new == configureFields(a.mode, a.actuatorId, a.targetKey, a.returnBoolean)
       IN /\ MODE = new.mode
          /\ ACTUATOR_ID = new.actuatorId
          /\ ACTUATE_TARGET_KEY = new.targetKey
          /\ ACTUATE_RETURN_BOOLEAN = new.returnBoolean
  /\ hist = HistInit("actuate")

ActuateNext ==
  \/ \E body \in ActuateBodies : ExtSendActuate(body)
  \/ ActuateHandler("ext")
  \/ configureSetMode
  \/ configureSetActuatorId
  \/ configureSetTargetKey
  \/ configureSetReturnBoolean
  \/ ExtReceive

SpecActuate == ActuateInit /\ [][ActuateNext]_vars

\* the answer to the last POST /__probe/actuate is on its way to the client
ActuateAnswered ==
  net["ext"].st = "resp" /\ net["ext"].kind = "actuate" /\ net["ext"].code = 200

\* what configure leaves for arguments taken from the body where it has the field
\* and from the configuration before the call where it has not
ConfiguredFrom(mode, body, before) ==
  configureFields(
    mode,
    IF body.actuatorId = Null THEN before.actuatorId ELSE body.actuatorId,
    IF body.targetKey = Null THEN before.targetKey ELSE body.targetKey,
    IF body.returnBoolean = <<>> THEN before.returnBoolean ELSE body.returnBoolean[1])

\* C27 as stated: configure is applied with each of mode, actuatorId, targetKey and
\* returnBoolean from the body when the body has the field and from the current
\* configuration when it has not, and the answer echoes the configuration in effect
\* after the call.
C27_BodyOrCurrent ==
  ActuateAnswered =>
    /\ CurrentCfg = ConfiguredFrom(IF hist.body.mode = Null THEN hist.before.mode
                                   ELSE hist.body.mode,
                                   hist.body, hist.before)
    /\ net["ext"].cfg = CurrentCfg

\* C27 amended: as stated, except that a mode that is present but blank is taken
\* from the current configuration as well.
C27_BodyOrCurrentBlankMode ==
  ActuateAnswered =>
    /\ CurrentCfg = ConfiguredFrom(IF hist.body.mode = Null \/ isBlank(hist.body.mode)
                                   THEN hist.before.mode
                                   ELSE hist.body.mode,
                                   hist.body, hist.before)
    /\ net["ext"].cfg = CurrentCfg

\* an armed runtime was sent a blank mode and a new target key only: it stays armed,
\* keeps its actuator id and decision, and the answer shows the new target
C27_Witness ==
  /\ ActuateAnswered
  /\ hist.before.mode = Actuate
  /\ hist.before.returnBoolean
  /\ hist.body = [mode |-> <<" ">>, actuatorId |-> Null,
                  targetKey |-> <<" ">> \o KeyLine, returnBoolean |-> <<>>]
  /\ net["ext"].cfg = [mode |-> Actuate, actuatorId |-> hist.before.actuatorId,
                       targetKey |-> KeyLine, returnBoolean |-> TRUE]
  /\ hist.before.targetKey # KeyLine

----------------------------------------------------------------------------
(* SpecTool: the recipe_generate handler from its arguments to its response *)

ShortToken == <<"a", "b">>

ToolCalls ==
  {[g EXCEPT !.args.authToken = t] : g \in GenerateCalls, t \in ArgTokens \cup {ShortToken}}

ToolInit ==
  /\ InitHitTable
  /\ InitAgent
  /\ InitObserve
  /\ LAST_RESET_EPOCH_BY_KEY = [k \in RtKeys |-> Absent]
  /\ wait = WaitIdle
  /\ rst = CallIdle
  /\ stat = CallIdle
  /\ recipe \in ToolCalls
  /\ infer = InferIdle
  /\ act = ActIdle
  /\ search = SearchIdle
  /\ hist = HistInit("none")

ToolNext ==
  \/ generateRecipe
  \/ RecipeGenerateTool

SpecTool == ToolInit /\ [][ToolNext]_vars

\* the credentials the caller passed, as the resolver uses them
SuppliedCredentials ==
  {c \in {firstProvided(recipe.args.authToken), firstProvided(recipe.args.authPassword)} :
     c # Null}

HeaderValuesOf(auth) == {auth.requestHeaders[i].v : i \in 1..Len(auth.requestHeaders)}

\* header values in the structured content and in the JSON text content
HeaderValuesInResponse ==
  HeaderValuesOf(recipe.response.structuredContent.auth)
    \cup (IF recipe.response.text.kind = "json"
          THEN HeaderValuesOf(recipe.response.text.json.auth)
          ELSE {})

\* *** or four characters, an ellipsis and two characters
IsRedacted(v) ==
  \/ v = <<"*", "*", "*">>
  \/ Len(v) = 9 /\ SubSeq(v, 5, 7) = <<".", ".", ".">>

\* C25: no credential passed to recipe_generate appears in its response: every auth
\* header value in the response is in redacted form (*** or first 4 + ... + last 2)
\* and contains no credential the caller passed.
C25_NoCredentialInOutput ==
  recipe.pc = "returned" =>
    \A v \in HeaderValuesInResponse :
      /\ IsRedacted(v)
      /\ \A c \in SuppliedCredentials : ~includes(v, c)

----------------------------------------------------------------------------
(* SpecInfer: inferTargets over every combination of hints and indexed files *)

InferInit ==
  /\ InitHitTable
  /\ InitAgent
  /\ InitObserve
  /\ LAST_RESET_EPOCH_BY_KEY = [k \in RtKeys |-> Absent]
  /\ wait = WaitIdle
  /\ rst = CallIdle
  /\ stat = CallIdle
  /\ recipe = RecipeIdle
  /\ infer \in InferCalls
  /\ act = ActIdle
  /\ search = SearchIdle
  /\ hist = HistInit("none")

InferNext == InferTargets

SpecInfer == InferInit /\ [][InferNext]_vars

\* the hints as they are compared: trimmed and lower-cased, empty when not given
GivenClassHint == normalize(infer.args.classHint)
GivenMethodHint == normalize(infer.args.methodHint)
TextualHintGiven == GivenClassHint # <<>> \/ GivenMethodHint # <<>>

\* the class of file f (its class name or its file base) matches the class hint
ClassMatchesHint(fileAbs, className) ==
  /\ GivenClassHint # <<>>
  /\ \/ includes(normalize(className), GivenClassHint)
     \/ includes(toLowerCase(basename(fileAbs, DotJava)), GivenClassHint)

MethodMatchesHint(methodName) ==
  /\ GivenMethodHint # <<>>
  /\ includes(normalize(methodName), GivenMethodHint)

Returned == {infer.out.candidates[i] : i \in 1..Len(infer.out.candidates)}

\* the indexed methods that match neither hint
UnrelatedMethods ==
  {fm \in {<<f, j>> : f \in JavaFiles, j \in 1..2} :
     /\ \E i \in 1..Len(infer.index) : infer.index[i] = fm[1]
     /\ fm[2] <= Len(fm[1].methods)
     /\ ~ClassMatchesHint(fm[1].fileAbs, fm[1].className)
     /\ ~MethodMatchesHint(fm[1].methods[fm[2]].name)}

\* C23: when a class hint or a method hint with text in it is given, no returned
\* candidate is a method that matches neither hint (class hint against class name
\* and file base, method hint against method name), whatever the line hint is.
C23_NoUnrelatedCandidates ==
  (infer.pc = "done" /\ TextualHintGiven) =>
    \A c \in Returned :
      ClassMatchesHint(c.file, c.className) \/ MethodMatchesHint(c.methodName)

\* a call with a textual hint and a line hint that is exactly the start line of a
\* method matching neither hint, which still returns some other method
C23_Witness ==
  /\ infer.pc = "done"
  /\ TextualHintGiven
  /\ \E fm \in UnrelatedMethods : fm[1].methods[fm[2]].line = infer.args.lineHint
  /\ infer.out.candidates # <<>>

\* the scores the candidate's method earns for each hint
ClassScoreOf(c) ==
  IF GivenClassHint = <<>> THEN 0
  ELSE IF normalize(c.className) = GivenClassHint THEN 45
  ELSE IF ClassMatchesHint(c.file, c.className) THEN 25
  ELSE 0

MethodScoreOf(c) ==
  IF GivenMethodHint = <<>> THEN 0
  ELSE IF normalize(c.methodName) = GivenMethodHint THEN 40
  ELSE IF MethodMatchesHint(c.methodName) THEN 22
  ELSE 0

LineDistance(c) ==
  IF infer.args.lineHint >= c.line THEN infer.args.lineHint - c.line
  ELSE c.line - infer.args.lineHint

LineScoreOf(c) ==
  IF infer.args.lineHint = Absent THEN 0
  ELSE IF LineDistance(c) = 0 THEN 25
  ELSE IF LineDistance(c) <= 3 THEN 16
  ELSE IF LineDistance(c) <= 12 THEN 8
  ELSE 0

\* C24: the confidence of every returned candidate is the sum of its class score
\* (45 exact, 25 substring of class name or file base), method score (40 exact, 22
\* substring) and line score (25 at distance 0, 16 up to 3, 8 up to 12), capped at
\* 100, and lies in 1..100.
C24_ConfidenceIsCappedSum ==
  infer.pc = "done" =>
    \A c \in Returned :
      /\ c.confidence = min(100, ClassScoreOf(c) + MethodScoreOf(c) + LineScoreOf(c))
      /\ c.confidence \in 1..100

\* a returned candidate whose three scores sum to 110 and whose confidence is 100,
\* next to one that scores on a partial class and method match and the exact line
C24_Witness ==
  /\ infer.pc = "done"
  /\ \E c \in Returned :
       /\ ClassScoreOf(c) + MethodScoreOf(c) + LineScoreOf(c) = 110
       /\ c.confidence = 100
  /\ \E c \in Returned : c.confidence = 25 + 22 + 25

----------------------------------------------------------------------------
(* SpecAgent: the agent starts from every combination of agent arguments,    *)
(* environment and system properties, then classes are loaded                *)

AgentInit ==
  /\ InitHitTable
  /\ InitObserve
  /\ InitPlanner
  /\ hist = HistInit("none")
  /\ agent \in {AgentLaunched(launch) : launch \in AgentLaunches}

AgentNext ==
  \/ Premain
  \/ \E typeName \in LoadedClasses : ClassLoad(typeName)

SpecAgent == AgentInit /\ [][AgentNext]_vars

\* the sources that supply a setting
Suppliers(setting) == {src \in AgentSources : supplied(agent.given[src][setting])}

\* the value that wins under args < env < system-property
WinnerPropsEnvArgs(setting) ==
  IF "props" \in Suppliers(setting) THEN agent.given.props[setting]
  ELSE IF "env" \in Suppliers(setting) THEN agent.given.env[setting]
  ELSE agent.given.args[setting]

\* the value that wins when the agent arguments come first, then the system property
WinnerArgsPropsEnv(setting) ==
  IF "args" \in Suppliers(setting) THEN agent.given.args[setting]
  ELSE IF "props" \in Suppliers(setting) THEN agent.given.props[setting]
  ELSE agent.given.env[setting]

\* the configuration holds, for every setting more than one source supplies, the value
\* winner(setting) gives (an actuator id and a target only in actuate mode)
SettingsFrom(winner(_)) ==
  /\ Cardinality(Suppliers("mode")) > 1 =>
       agent.cfg.mode = normalizeMode(winner("mode"))
  /\ Cardinality(Suppliers("actuatorId")) > 1 /\ agent.cfg.mode = Actuate =>
       agent.cfg.actuatorId = trim(winner("actuatorId"))
  /\ Cardinality(Suppliers("actuateTarget")) > 1 /\ agent.cfg.mode = Actuate =>
       agent.cfg.actuateTargetKey = trim(winner("actuateTarget"))
  /\ Cardinality(Suppliers("actuateReturnBoolean")) > 1 =>
       agent.cfg.actuateReturnBoolean = parseBoolean(winner("actuateReturnBoolean"), FALSE)
  /\ Cardinality(Suppliers("include")) > 1 =>
       agent.cfg.includePatterns = parseCsv(winner("include"))
  /\ Cardinality(Suppliers("exclude")) > 1 =>
       agent.cfg.excludePatterns = parseCsv(winner("exclude"))

\* C28: once the agent has read its configuration, every start-up setting that more
\* than one of the agent arguments, the environment and the system properties supply
\* has the value of the system property if it supplies one, else of the environment
\* variable, else of the agent arguments
C28_PropsOverEnvOverArgs ==
  agent.pc = "installed" => SettingsFrom(WinnerPropsEnvArgs)

\* what the code does instead: the agent arguments win, then the system property, then
\* the environment variable
AgentArgsFirst ==
  agent.pc = "installed" => SettingsFrom(WinnerArgsPropsEnv)

\* between the two sources of a default, the system property beats the environment
PropsOverEnv ==
  agent.pc = "installed" /\ agent.args = <<>> => SettingsFrom(WinnerPropsEnvArgs)

\* a glob over dotted names, from its index i on, against c from index j on: * stands
\* for any run of characters within one segment, ** for any run of characters, every
\* other character for itself
RECURSIVE GlobMatches(_, _, _, _)
GlobMatches(g, i, c, j) ==
  IF i > Len(g) THEN j > Len(c)
  ELSE IF g[i] = "*" /\ i < Len(g) /\ g[i + 1] = "*"
    THEN \E k \in j..(Len(c) + 1) : GlobMatches(g, i + 2, c, k)
  ELSE IF g[i] = "*"
    THEN \E k \in j..(Len(c) + 1) :
           /\ \A n \in j..(k - 1) : c[n] # "."
           /\ GlobMatches(g, i + 1, c, k)
  ELSE j <= Len(c) /\ c[j] = g[i] /\ GlobMatches(g, i + 1, c, j + 1)

\* class c is in package p or in a package below it
InPackage(p, c) ==
  startsWith(c, IF p[Len(p)] = "." THEN p ELSE p \o <<".">>)

\* pattern p matches class c: a pattern without a wildcard is a package prefix
PatternMatches(p, c) ==
  IF \A i \in 1..Len(p) : p[i] # "*" THEN InPackage(p, c) ELSE GlobMatches(p, 1, c, 1)

MatchesSome(patterns, c) == \E i \in 1..Len(patterns) : PatternMatches(patterns[i], c)

PackageAbc == <<"a", ".", "b", ".", "c">>
UnderAbc == {<<"a", ".", "b", ".", "c", ".", "X">>, <<"a", ".", "b", ".", "c", ".", "d", ".", "e", ".", "X">>}

\* C29: a loaded class is instrumented exactly when its name is non-empty, is under no
\* built-in excluded prefix, matches at least one include pattern and matches no exclude
\* pattern, the patterns read as package prefixes (no wildcard) or globs (* within a
\* segment, ** across segments); so with no include pattern nothing is instrumented, and
\* under the include a.b.c alone the classes a.b.c.X and a.b.c.d.e.X are instrumented
\* and a.b.cX, a.x.c.X are not
C29_InstrumentedExactlyWhen ==
  agent.pc = "installed" /\ agent.cls # Null =>
    /\ agent.instrumented <=>
         /\ ~isEmpty(agent.cls)
         /\ \A p \in IgnoredPrefixes : ~startsWith(agent.cls, p)
         /\ MatchesSome(agent.cfg.includePatterns, agent.cls)
         /\ ~MatchesSome(agent.cfg.excludePatterns, agent.cls)
    /\ Len(agent.cfg.includePatterns) = 0 => ~agent.instrumented
    /\ agent.cfg.includePatterns = <<PackageAbc>> /\ Len(agent.cfg.excludePatterns) = 1
         /\ agent.cfg.excludePatterns[1] = DefaultExclude =>
           (agent.instrumented <=> agent.cls \in UnderAbc)

\* the class a.b.c.d.e.X is loaded under the include a.b.c and is instrumented
C29_Witness ==
  /\ agent.pc = "installed"
  /\ agent.cfg.includePatterns = <<PackageAbc>>
  /\ agent.cls = <<"a", ".", "b", ".", "c", ".", "d", ".", "e", ".", "X">>
  /\ agent.instrumented

----------------------------------------------------------------------------
(* SpecJump: an application thread runs instrumented jumps while actuate     *)
(* requests reconfigure the runtime                                          *)

PaddedActuate == <<" ", "A", "c", "t", "u", "a", "t", "e", " ">>

\* the configurations the agent starts with
JumpConfigs ==
  {ObserveCfg, configureFields(Actuate, <<"a">>, KeyLine, TRUE)}

JumpBodies ==
  {b \in ActuateBodies :
     /\ b.actuatorId = Null
     /\ \/ b.mode = Observe /\ b.targetKey = Null /\ b.returnBoolean = <<>>
        \/ b.mode = PaddedActuate /\ b.targetKey = KeyMethod /\ b.returnBoolean = <<>>
        \/ b.mode = Null /\ b.targetKey = Null /\ b.returnBoolean = <<FALSE>>}

JumpLines == {0, 7}

JumpInit ==
  /\ InitHitTable /\ InitAgent /\ InitPlanner
  /\ reader = ReaderIdle
  /\ hist = HistInit("jump")
  /\ \E cfg \in JumpConfigs :
       /\ MODE = cfg.mode
       /\ ACTUATOR_ID = cfg.actuatorId
       /\ ACTUATE_TARGET_KEY = cfg.targetKey
       /\ ACTUATE_RETURN_BOOLEAN = cfg.returnBoolean

JumpNext ==
  \/ \E body \in JumpBodies : ExtSendActuate(body)
  \/ ActuateHandler("ext")
  \/ ExtReceive
  \/ configureSetMode
  \/ configureSetActuatorId
  \/ configureSetTargetKey
  \/ configureSetReturnBoolean
  \/ \E line \in JumpLines, opcode \in JumpOpcodes :
       \E operands \in JumpOperands(opcode) :
         JumpEnter(ClassC, MethodM, line, opcode, operands)
  \/ ReaderReadMode
  \/ ReaderReadBlank
  \/ ReaderReadKey
  \/ ReaderReadBoolean
  \/ JumpTransfer
  \/ JumpLeave

SpecJump == JumpInit /\ [][JumpNext]_vars

\* the jump just run was an instrumented one
InstrumentedJumpRun ==
  /\ reader.pc = "jumped"
  /\ reader.code[1].op = "INVOKESTATIC"

\* what the application's own jump does with the operands it found
UninstrumentedJump == execute(<<JumpInsn(reader.opcode, "label")>>, 1, reader.operands)

\* configuration cfg is in actuate mode with this jump's class#method:line as target
TargetsJump(cfg) ==
  /\ cfg.mode = Actuate
  /\ cfg.targetKey = LineKey(reader.c, reader.m, reader.line)

\* C30: an instrumented conditional jump run while every configuration in force is in
\* observe mode or targets another key leaves for the same place, with the same operand
\* stack, as the uninstrumented jump on the same operands; run while every configuration
\* in force targets the jump's class#method:line it is taken when the forced boolean is
\* true and falls through when it is false, whatever the operands
C30_JumpAsUninstrumentedUnlessTargeted ==
  InstrumentedJumpRun =>
    /\ (\A cfg \in hist.cands : ~TargetsJump(cfg)) =>
         /\ reader.exit = UninstrumentedJump.exit
         /\ reader.stack = UninstrumentedJump.stack
    /\ (\A cfg \in hist.cands : TargetsJump(cfg) /\ cfg.returnBoolean) =>
         reader.exit = "taken"
    /\ (\A cfg \in hist.cands : TargetsJump(cfg) /\ ~cfg.returnBoolean) =>
         reader.exit = "fallthrough"

\* a two-operand jump that would fall through is targeted with forced boolean true and
\* is taken
C30_Witness ==
  /\ InstrumentedJumpRun
  /\ reader.opcode \in BinaryConditionalJumps
  /\ \A cfg \in hist.cands : TargetsJump(cfg) /\ cfg.returnBoolean
  /\ UninstrumentedJump.exit = "fallthrough"
  /\ reader.exit = "taken"

\* how many operands the application's jump takes off the stack
OperandsOf(opcode) == IF opcode \in UnaryConditionalJumps THEN 1 ELSE 2

\* C34: after an instrumented conditional jump, on the natural path (decision -1), the
\* forced-taken path (1) and the forced-fallthrough path (0), the operand stack at the
\* place control leaves for is the stack the jump found less its own operands: one for
\* a unary jump, two for a binary one, and the decision value is gone.
C34_OperandStackAsOriginal ==
  InstrumentedJumpRun =>
    /\ reader.result \in {0 - 1, 0, 1}
    /\ reader.stack = SubSeq(reader.operands, 1,
                             Len(reader.operands) - OperandsOf(reader.opcode))
    /\ reader.stack = StackBelow

\* a binary jump has been forced to fall through
C34_Witness ==
  /\ InstrumentedJumpRun
  /\ reader.opcode \in BinaryConditionalJumps
  /\ reader.result = 0
  /\ reader.exit = "fallthrough"
  /\ Len(reader.stack) = Len(reader.operands) - 2

\* the other two paths: a unary jump forced to be taken, a jump run on its own condition
ForcedTakenUnary ==
  InstrumentedJumpRun /\ reader.opcode \in UnaryConditionalJumps /\ reader.result = 1

NaturalPathJump == InstrumentedJumpRun /\ reader.result = 0 - 1

\* call sites, with a method name that itself looks like a method and a line
ActuatorSites == ReadSites \cup {<<ClassC, MethodM \o <<":", "7">>>>}

\* C39: in every runtime configuration, for every class c, method m and line, at most
\* one actuator is active for (c, m): shouldActuateBooleanReturn(c, m) and
\* branchDecisionByClassMethodLine(c, m, line) # -1 do not hold together.
C39_AtMostOneActuator ==
  \A site \in ActuatorSites, line \in ReadLines :
    ~(/\ shouldActuateBooleanReturnOn(CurrentCfg, site[1], site[2])
      /\ branchDecisionOn(CurrentCfg, site[1], site[2], line) # -1)

\* the runtime is armed on the method key C#m, an exit of C.m has had its return
\* value replaced, and no line of C.m has a forced branch
C39_Witness ==
  /\ srv.pc = "idle"
  /\ MODE = Actuate
  /\ ACTUATE_TARGET_KEY = KeyMethod
  /\ reader.pc = "done" /\ reader.fn = "onExit" /\ reader.should
  /\ reader.c = ClassC /\ reader.m = MethodM
  /\ \A line \in ReadLines : branchDecisionOn(CurrentCfg, ClassC, MethodM, line) = -1

\* the runtime is armed on the line key C#m:7: the branch at that line is forced and
\* no return value of C.m is replaced
ArmedOnLineOnly ==
  (srv.pc = "idle" /\ MODE = Actuate /\ ACTUATE_TARGET_KEY = KeyLine) =>
    /\ branchDecisionOn(CurrentCfg, ClassC, MethodM, 7) # -1
    /\ ~shouldActuateBooleanReturnOn(CurrentCfg, ClassC, MethodM)

----------------------------------------------------------------------------
(* Planner state shared by tool invocations, checked on SpecWait *)

\* probe_wait_hit is between its first request and its return
WaitInProgress(w) == w.pc \notin {"idle", "done"}

\* C35: an invocation interleaved with a probe_wait_hit in progress changes no
\* planner-side value the probe_wait_hit uses: each further attempt of the call has the
\* inline-start epoch of the attempt before, that is the same recorded reset epoch, or
\* its own wait start when there was none.
C35_NoSharedMutableState ==
  [][(WaitInProgress(wait) /\ WaitInProgress(wait') /\ wait'.attempt = wait.attempt + 1) =>
       \/ wait'.inlineStart = wait.inlineStart
       \/ wait.inlineStart = wait.waitStart /\ wait'.inlineStart = wait'.waitStart]_vars

\* C35, as the code has it: the planner's invocations share LAST_RESET_EPOCH_BY_KEY,
\* which probe_reset writes and probe_wait_hit reads at the head of every attempt. The
\* inline-start epoch is fixed within an attempt, whatever is interleaved, and every
\* attempt starts from the reset epoch recorded by then (its own wait start when none is).
C35_InlineStartPerAttempt ==
  [][/\ (WaitInProgress(wait) /\ WaitInProgress(wait') /\ wait'.attempt = wait.attempt) =>
          wait'.inlineStart = wait.inlineStart
     /\ (WaitInProgress(wait') /\ wait'.attempt # wait.attempt) =>
          wait'.inlineStart = IF LAST_RESET_EPOCH_BY_KEY[wait'.key] # Absent
                              THEN LAST_RESET_EPOCH_BY_KEY[wait'.key]
                              ELSE wait'.waitStart]_vars

\* the second attempt of a call starts from a reset epoch recorded after the first
\* attempt had started from its own wait start
C35_Witness ==
  /\ WaitInProgress(wait)
  /\ wait.attempt = 2
  /\ rst.recorded
  /\ wait.inlineStart = LAST_RESET_EPOCH_BY_KEY[wait.key]
  /\ wait.inlineStart < wait.waitStart

----------------------------------------------------------------------------
(* SpecStrict: the three probe tools called with every kind of key *)

StrictNext ==
  \/ Tick
  \/ \E c \in {"wait", "rst", "stat"} : StatusHandlerReadCount(c)
  \/ StatusHandlerRespond
  \/ ResetHandlerCounts("rst")
  \/ ResetHandlerRespond
  \/ \E k \in ArgKeys, lh \in ArgLineHints, t \in ArgTimeouts, r \in ArgRetries :
       probeWaitHit(k, lh, t, r)
  \/ WaitOnBaseline
  \/ WaitOnPoll
  \/ WaitAfterSleep
  \/ \E k \in ArgKeys, lh \in ArgLineHints : probeReset(k, lh)
  \/ ResetOnResponse
  \/ \E k \in ArgKeys, lh \in ArgLineHints : probeStatus(k, lh)
  \/ StatusOnResponse

SpecStrict == WaitInit /\ [][StrictNext]_vars

\* the documented line-key pattern .+#[^:]+:\d+$ : as isLineKey, with at least one
\* character in front of the '#'
matchesDocumentedLineKey(key) ==
  \E i \in 2..Len(key) :
    /\ key[i] = "#"
    /\ \E j \in (i + 2)..(Len(key) - 1) :
         /\ key[j] = ":"
         /\ \A k \in (i + 1)..(j - 1) : key[k] # ":"
         /\ \A k \in (j + 1)..Len(key) : key[k] \in Digit

\* C10: a key that does not match .+#[^:]+:\d+$ , given without lineHint, makes
\* probe_status, probe_reset and probe_wait_hit return line_key_required, with no HTTP
\* request sent, no polling and no reset epoch recorded.
C10_StrictLineMode ==
  /\ (wait.pc # "idle" /\ wait.lineHint = NoHint /\ ~matchesDocumentedLineKey(wait.argKey)) =>
       /\ wait.pc = "done"
       /\ wait.result.kind = "line_key_required"
       /\ ~wait.sent
       /\ ~wait.result.polled
  /\ (rst.pc # "idle" /\ rst.lineHint = NoHint /\ ~matchesDocumentedLineKey(rst.argKey)) =>
       /\ rst.pc = "done"
       /\ rst.result = "line_key_required"
       /\ ~rst.sent
       /\ ~rst.recorded
  /\ (stat.pc # "idle" /\ stat.lineHint = NoHint /\ ~matchesDocumentedLineKey(stat.argKey)) =>
       /\ stat.pc = "done"
       /\ stat.result = "line_key_required"
       /\ ~stat.sent

----------------------------------------------------------------------------
(* SpecLine: an application thread runs the methods of a class the agent has  *)
(* loaded, with what the transformer installed on them                        *)

LineTableKeys == {KeyLine, KeyMethod}

LineLaunches ==
  {[given |-> [args |-> [NoSettings EXCEPT !.include = i],
               env |-> NoSettings, props |-> NoSettings],
    inferred |-> Null] : i \in {<<"*", "*">>, <<"a", ".", "b", ".", "c">>}}

LineInit ==
  /\ COUNTS = [k \in LineTableKeys |-> Absent]
  /\ LAST_HIT_EPOCH_MS = [k \in LineTableKeys |-> Absent]
  /\ clock = 1
  /\ hitter = [h \in Hitters |-> HitterIdle]
  /\ srv = SrvIdle
  /\ net = [c \in Callers |-> NetIdle]
  /\ InitObserve
  /\ InitPlanner
  /\ agent \in {AgentLaunched(launch) : launch \in LineLaunches}
  /\ hist = [HistInit("line") EXCEPT !.zeroed = [k \in LineTableKeys |-> FALSE],
                                     !.hits = [k \in LineTableKeys |-> 0]]

LineNext ==
  \/ Premain
  \/ ClassLoad(ClassC)
  \/ \E method \in AppMethods : MethodEnter(method)
  \/ HitReturn
  \/ \E line \in HitLines : LineReached(line)
  \/ \E throws \in BOOLEAN : LineInstructions(throws)
  \/ MethodReturn
  \/ hitReadClock(AppThread)
  \/ hitSetLast(AppThread)
  \/ Tick

SpecLine == LineInit /\ [][LineNext]_vars

\* C31: when the first instruction of a source line L > 0 of a method that is not
\* abstract, native or a lambda$ body, in a class the filter accepted, is about to run,
\* the key class#method:L has been incremented once for every time such a line was
\* reached.
C31_LineCountedBeforeInstructions ==
  (agent.run.pc = "line" /\ agent.instrumented /\ methodMatcher(agent.run.method)
     /\ agent.run.line > 0) =>
    getCount(LineKey(agent.cls, agent.run.method.name, agent.run.line)) >= agent.run.reached

\* what the installed advice does count: the method key, once per entry, before the body
MethodCountedBeforeBody ==
  (agent.run.pc \in {"body", "line"} /\ agent.instrumented
     /\ methodMatcher(agent.run.method)) =>
    getCount(MethodKey(agent.cls, agent.run.method.name)) >= 1


----------------------------------------------------------------------------
(* SpecTransport: the four probe tools, called one after the other, against a *)
(* probe whose requests and responses can be lost or timed out                *)

TransportInit == InitHitTable /\ InitAgent /\ InitObserve /\ InitPlanner /\ hist = HistInit("none")

TransportArgs ==
  {[mode |-> Actuate, actuatorId |-> Null, targetKey |-> KeyLine, returnBoolean |-> <<TRUE>>],
   [mode |-> Actuate, actuatorId |-> Null, targetKey |-> KeyMethod, returnBoolean |-> <<TRUE>>],
   [mode |-> Observe, actuatorId |-> Null, targetKey |-> Null, returnBoolean |-> <<>>]}

\* no probe tool is in progress
PlannerQuiet ==
  /\ wait.pc \in {"idle", "done"}
  /\ rst.pc \in {"idle", "done"}
  /\ stat.pc \in {"idle", "done"}
  /\ act.pc \in {"idle", "done"}

TransportWaitHit == PlannerQuiet /\ probeWaitHit(KeyLine, NoHint, 500, 2)
TransportReset == PlannerQuiet /\ probeReset(KeyLine, NoHint)
TransportStatus == PlannerQuiet /\ probeStatus(KeyLine, NoHint)
TransportActuate(args) == PlannerQuiet /\ probeActuate(args)

TransportNext ==
  \/ Tick
  \/ \E c \in {"wait", "stat"} : StatusHandlerReadCount(c)
  \/ StatusHandlerRespond
  \/ ResetHandlerCounts("rst")
  \/ ResetHandlerRespond
  \/ ActuateHandler("act")
  \/ configureSetMode
  \/ configureSetActuatorId
  \/ configureSetTargetKey
  \/ configureSetReturnBoolean
  \/ \E c \in {"wait", "rst", "stat", "act"} : TransportFailure(c)
  \/ TransportWaitHit
  \/ WaitOnBaseline
  \/ WaitOnPoll
  \/ WaitAfterSleep
  \/ WaitOnError
  \/ TransportReset
  \/ ResetOnResponse
  \/ ResetOnError
  \/ TransportStatus
  \/ StatusOnResponse
  \/ StatusOnError
  \/ \E args \in TransportArgs : TransportActuate(args)
  \/ ActuateOnResponse
  \/ ActuateOnError

SpecTransport == TransportInit /\ [][TransportNext]_vars

\* C32: when the HTTP call of probe_status, probe_reset or probe_actuate, or a baseline
\* or poll request of probe_wait_hit, has failed at transport level, the tool's next step
\* ends the call by throwing the remediation message that names the URL: no request is
\* sent again, no poll or attempt follows, and no reset epoch is recorded.
C32_TransportFailureFailsAtOnce ==
  [][/\ (net["wait"].st = "error" /\ wait' # wait) =>
          /\ wait'.pc = "done"
          /\ wait'.result.kind = "threw"
          /\ wait'.result.error = probeUnreachableMessage(statusUrl(wait.key))
          /\ wait'.result.polled = wait.polled
          /\ net'["wait"].st = "idle"
     /\ (net["rst"].st = "error" /\ rst' # rst) =>
          /\ rst'.pc = "done"
          /\ rst'.result = "threw"
          /\ rst'.error = probeUnreachableMessage(resetUrl)
          /\ ~rst'.recorded
          /\ LAST_RESET_EPOCH_BY_KEY' = LAST_RESET_EPOCH_BY_KEY
          /\ net'["rst"].st = "idle"
     /\ (net["stat"].st = "error" /\ stat' # stat) =>
          /\ stat'.pc = "done"
          /\ stat'.result = "threw"
          /\ stat'.error = probeUnreachableMessage(statusUrl(stat.key))
          /\ net'["stat"].st = "idle"
     /\ (net["act"].st = "error" /\ act' # act) =>
          /\ act'.pc = "done"
          /\ act'.result = "threw"
          /\ act'.error = probeUnreachableMessage(actuateUrl)
          /\ net'["act"].st = "idle"
     /\ \A c \in {"wait", "rst", "stat", "act"} :
          net[c].st = "error" => net'[c].st \in {"error", "idle"}]_vars

\* every tool has thrown, probe_wait_hit on a poll request
C32_Witness ==
  /\ wait.result.kind = "threw" /\ wait.result.polled
  /\ rst.result = "threw"
  /\ stat.result = "threw"
  /\ act.result = "threw"


----------------------------------------------------------------------------
(* SpecIdem: reset and configure called repeatedly from every kind of hit     *)
(* table and configuration, with hits in between                              *)

\* what the hit table can hold for a key: no entry, a reset entry, a hit entry
StartEntries == {[count |-> Absent, last |-> Absent], [count |-> 0, last |-> 0],
                 [count |-> 1, last |-> MsPerTick]}

IdemKeys == {Null, <<>>, KeyLine, KeyNoClass}

IdemConfigures ==
  {<<Null, Null, Null, FALSE>>,
   <<PaddedActuate, <<" ", "a">>, <<" ">> \o KeyLine, TRUE>>,
   <<Actuate, <<"a">>, Null, FALSE>>}

IdemInit ==
  /\ \E e \in [RtKeys -> StartEntries] :
       /\ COUNTS = [k \in RtKeys |-> e[k].count]
       /\ LAST_HIT_EPOCH_MS = [k \in RtKeys |-> e[k].last]
  /\ clock = 1
  /\ hitter = [h \in Hitters |-> HitterIdle]
  /\ srv = SrvIdle
  /\ net = [c \in Callers |-> NetIdle]
  /\ \E cfg \in JumpConfigs :
       /\ MODE = cfg.mode
       /\ ACTUATOR_ID = cfg.actuatorId
       /\ ACTUATE_TARGET_KEY = cfg.targetKey
       /\ ACTUATE_RETURN_BOOLEAN = cfg.returnBoolean
  /\ reader = ReaderIdle
  /\ InitAgent
  /\ InitPlanner
  /\ hist = HistInit("idem")

IdemNext ==
  \/ \E key \in IdemKeys : reset(key)
  \/ \E a \in IdemConfigures : configure(a[1], a[2], a[3], a[4])
  \/ hitLineByClassMethod("h1", ClassC, MethodM, 7)
  \/ hitReadClock("h1")
  \/ hitSetLast("h1")

SpecIdem == IdemInit /\ [][IdemNext]_vars

\* C33: a reset(K) that follows a reset(K) with no hit on K in between leaves the hit
\* table as it found it, and a configure that follows a configure with the same four
\* arguments leaves the configuration as it found it.
C33_RepeatedCallIdempotent ==
  [][/\ (hist'.n = hist.n + 1 /\ hist'.op = "reset" /\ hist'.lastReset = hist.lastReset) =>
          /\ COUNTS' = COUNTS
          /\ LAST_HIT_EPOCH_MS' = LAST_HIT_EPOCH_MS
     /\ (hist'.n = hist.n + 1 /\ hist'.op = "configure"
           /\ hist'.lastConfigure = hist.lastConfigure) =>
          /\ MODE' = MODE
          /\ ACTUATOR_ID' = ACTUATOR_ID
          /\ ACTUATE_TARGET_KEY' = ACTUATE_TARGET_KEY
          /\ ACTUATE_RETURN_BOOLEAN' = ACTUATE_RETURN_BOOLEAN]_vars

\* both calls have been repeated, the configure in actuate mode
C33_Witness ==
  /\ hist.resetRepeated
  /\ hist.configureRepeated
  /\ MODE = Actuate
  /\ hist.lastReset = <<KeyLine>>



----------------------------------------------------------------------------
(* SpecSearch: the caller search over every small source tree of two service  *)
(* files next to a controller and a test, and over a tree in which more       *)
(* callers call the hinted method than one expansion takes                    *)

MethodT == <<"t">>
MethodA == <<"a">>
MethodB == <<"b">>
SmallNames == {MethodT, MethodA, MethodB}

\* what a file's text can hold: for every callee, the enclosing method of its call
SmallTexts == [SmallNames -> SmallNames \cup {NoCall}]

SearchControllerFile ==
  IndexEntry(<<"controller", "C.java">>, FALSE, FALSE, TRUE, FALSE,
             [n \in SmallNames |-> <<"h">>])

SearchTestFile ==
  IndexEntry(<<"src", "test", "T.java">>, FALSE, FALSE, FALSE, TRUE,
             [n \in SmallNames |-> <<"x">>])

SmallTrees ==
  {<<SearchControllerFile, SearchTestFile,
     IndexEntry(<<"A.java">>, FALSE, FALSE, FALSE, FALSE, t1),
     IndexEntry(<<"service", "B.java">>, TRUE, TRUE, FALSE, FALSE, t2)>> :
     t1 \in SmallTexts, t2 \in SmallTexts}

WideFiles == MaxCallersPerExpansion + 2

WideName(i) == <<"m">> \o NatToStr(i)

\* every file holds a method m<i> that calls the hinted method and is called by it
WideTree ==
  [i \in 1..WideFiles |->
     IndexEntry(<<"wide">> \o NatToStr(i), FALSE, FALSE, FALSE, FALSE,
                (MethodT :> WideName(i)) @@ (WideName(i) :> MethodT))]

SearchTrees == SmallTrees \cup {WideTree}

SearchInit ==
  /\ COUNTS = [k \in LineTableKeys |-> Absent]
  /\ LAST_HIT_EPOCH_MS = [k \in LineTableKeys |-> Absent]
  /\ clock = 1
  /\ hitter = [h \in Hitters |-> HitterIdle]
  /\ srv = SrvIdle
  /\ net = [c \in Callers |-> NetIdle]
  /\ InitObserve
  /\ LAST_RESET_EPOCH_BY_KEY = [k \in RtKeys |-> Absent]
  /\ wait = WaitIdle /\ rst = CallIdle /\ stat = CallIdle
  /\ recipe = RecipeIdle /\ infer = InferIdle /\ act = ActIdle
  /\ search = SearchIdle
  /\ agent = AgentIdle
  /\ hist = HistInit("search")

SearchNext ==
  \/ \E index \in SearchTrees :
       CallerSearchBegin(index, {<<"controller", "C.java">>}, MethodT)
  \/ CallerSearchShift
  \/ CallerSearchVisit
  \/ CallerSearchNext
  \/ CallerSearchSort

\* findControllerRequestCandidate is one async function: once called it runs on
SpecSearch ==
  /\ SearchInit
  /\ [][SearchNext]_vars
  /\ WF_vars(CallerSearchShift)
  /\ WF_vars(CallerSearchVisit)
  /\ WF_vars(CallerSearchNext)
  /\ WF_vars(CallerSearchSort)

chainsRecorded ==
  {search.intermediateCandidates[i].chain : i \in 1..Len(search.intermediateCandidates)}
  \cup {search.methodQueue[i].chain : i \in 1..Len(search.methodQueue)}

\* C36: the caller search terminates for every source tree, mutually recursive
\* methods included: a method name is enqueued at most once per depth, no entry at
\* depth >= 2 is expanded, at most 16 callers are taken per expansion, and every
\* recorded call chain holds at most 3 method names.
C36_CallerSearchBounded ==
  /\ [](/\ \A i, j \in 1..Len(hist.pushed) : hist.pushed[i] = hist.pushed[j] => i = j
        /\ \A d \in hist.expanded : d < 2
        /\ hist.taken <= 16
        /\ \A chain \in chainsRecorded : Len(chain) <= 3)
  /\ (search.pc = "while") ~> (search.pc = "sorted")

\* more than 16 methods call the hinted method and are called by it: 16 were taken,
\* and the chain from the hinted method through a caller back to it was recorded
C36_Witness ==
  /\ search.pc = "sorted"
  /\ Len(callersInIndexOrder(search.index, search.methodHint, search.controllerSet, 1)) > 16
  /\ hist.taken = 16
  /\ \E chain \in chainsRecorded :
       Len(chain) = 3 /\ chain[1] = search.methodHint /\ chain[3] = search.methodHint


----------------------------------------------------------------------------
(* SpecArm: probe_actuate called with every combination of its arguments on a *)
(* runtime that premain left in observe mode or armed on a line key           *)

ArmInit ==
  /\ InitHitTable /\ InitAgent /\ InitPlanner
  /\ reader = ReaderIdle
  /\ \E mode \in {Null, Actuate} :
       LET a == fromAgentArgs(mode, <<"a">>, KeyLine, TRUE)
           new == configureFields(a.mode, a.actuatorId, a.targetKey, a.returnBoolean)
       IN /\ MODE = new.mode
          /\ ACTUATOR_ID = new.actuatorId
          /\ ACTUATE_TARGET_KEY = new.targetKey
          /\ ACTUATE_RETURN_BOOLEAN = new.returnBoolean
  /\ hist = HistInit("none")

ArmNext ==
  \/ \E args \in ActArgs : probeActuate(args)
  \/ ActuateHandler("act")
  \/ configureSetMode
  \/ configureSetActuatorId
  \/ configureSetTargetKey
  \/ configureSetReturnBoolean
  \/ TransportFailure("act")
  \/ ActuateOnResponse
  \/ ActuateOnError

SpecArm == ArmInit /\ [][ArmNext]_vars

\* the probe_actuate call is over and the probe applied its request
ActuateApplied == act.pc = "done" /\ act.sent /\ act.result = "actuation_applied"

\* C37: probe_actuate never arms the runtime with a target key that is not a line
\* key: when a call has left the runtime in actuate mode, the targetKey it sent is a
\* line key; a call with mode actuate and a missing or method-only targetKey is
\* refused with line_key_required and sends nothing to the probe.
C37_ArmedOnlyWithLineKey ==
  /\ (ActuateApplied /\ MODE = Actuate /\ act.args.targetKey # Null) =>
       isLineKey(act.args.targetKey)
  /\ (act.pc = "done" /\ act.args.mode = Actuate
        /\ (act.args.targetKey = Null \/ ~isLineKey(act.args.targetKey))) =>
       (act.result = "line_key_required" /\ ~act.sent)

\* what the strict-line test does ensure: a call that names the mode actuate
ArmedByModeActuateOnlyWithLineKey ==
  (act.pc # "idle" /\ act.args.mode = Actuate /\ act.sent) =>
    (act.args.targetKey # Null /\ isLineKey(act.args.targetKey))


----------------------------------------------------------------------------
(* SpecRoots: buildSearchRoots over project and workspace directories that    *)
(* are the same, nested either way, or apart                                  *)

MaxPathSegments == 2

PathSegments == {<<"w">>, <<"s", "-", "C", "o", "r", "e">>, <<"c", "o", "r", "e">>, <<".", ".">>}

\* absolute paths, with and without a trailing separator
AbsolutePaths ==
  UNION {{<<"/">> \o join(segments, <<"/">>) \o tail :
            segments \in [1..k -> PathSegments], tail \in {<<>>, <<"/">>}} :
         k \in 0..MaxPathSegments}

RootsInit ==
  /\ InitHitTable /\ InitAgent /\ InitObserve
  /\ LAST_RESET_EPOCH_BY_KEY = [k \in RtKeys |-> Absent]
  /\ wait = WaitIdle /\ rst = CallIdle /\ stat = CallIdle
  /\ recipe = RecipeIdle /\ infer = InferIdle /\ act = ActIdle
  /\ search \in {[SearchIdle EXCEPT !.pc = "called", !.rootAbs = rootAbs,
                                    !.workspaceRootAbs = workspaceRootAbs] :
                   rootAbs \in AbsolutePaths, workspaceRootAbs \in AbsolutePaths}
  /\ hist = HistInit("none")

RootsNext ==
  \/ BuildSearchRoots

SpecRoots == RootsInit /\ [][RootsNext]_vars

\* the list the search roots are described as: the project root, its parent when
\* the project directory name ends in -core, and the workspace root unless it is
\* one of these
expectedSearchRoots(rootAbs, workspaceRootAbs) ==
  LET root == pathResolve(rootAbs)
      workspace == pathResolve(workspaceRootAbs)
      first == <<root>> \o (IF endsWith(toLowerCase(basename(root, <<>>)), DashCore)
                            THEN <<pathDirname(root)>> ELSE <<>>)
  IN first \o (IF \E i \in 1..Len(first) : first[i] = workspace THEN <<>>
               ELSE <<workspace>>)

\* C38: buildSearchRoots returns a duplicate-free list that starts with the project
\* root, followed by its parent directory when the project directory name ends in
\* -core, followed by the workspace root whenever it is not already in the list.
C38_SearchRootsWithWorkspaceLast ==
  search.pc = "roots" =>
    /\ \A i, j \in 1..Len(search.searchRootsAbs) :
         search.searchRootsAbs[i] = search.searchRootsAbs[j] => i = j
    /\ search.searchRootsAbs = expectedSearchRoots(search.rootAbs, search.workspaceRootAbs)

\* what holds of the list as it is built: no duplicates, the project root first,
\* then only the parent of a -core project
SearchRootsWithoutWorkspace ==
  search.pc = "roots" =>
    LET root == pathResolve(search.rootAbs)
        core == endsWith(toLowerCase(basename(root, <<>>)), DashCore)
    IN search.searchRootsAbs = <<root>> \o (IF core THEN <<pathDirname(root)>> ELSE <<>>)


----------------------------------------------------------------------------
(* SpecWaitApplied: probe_reset, a hit and probe_wait_hit on the line key,    *)
(* with the hits sorted by where they begin: before the runtime applied the   *)
(* reset, before the planner recorded its epoch, or after that                *)

WaitAppliedInit ==
  InitHitTable /\ InitAgent /\ InitObserve /\ InitPlanner /\ hist = HistInit("applied")

SpecWaitApplied == WaitAppliedInit /\ [][WaitNext]_vars

\* the probe_reset of the line key has recorded its epoch
ResetRecorded == rst.pc = "done" /\ rst.recorded /\ rst.key = KeyLine

\* a hit that began after the runtime applied that reset has been recorded
HitRecordedAfterReset == hist.phase >= 2

\* a probe_wait_hit called after the reset epoch and the hit were recorded has
\* ended without a transport failure
LaterWaitEnded == wait.pc = "done" /\ hist.phase = 3 /\ wait.result.kind # "threw"

EarlyHitReportedStale ==
  /\ LaterWaitEnded
  /\ ~hist.hitStored
  /\ wait.result.stale.set
  /\ hist.hitT < LAST_RESET_EPOCH_BY_KEY[KeyLine]

====
